---- MODULE Spec2Model ----
(***************************************************************************)
(* State-machine model of the two local-first stores of a0-ticvision:      *)
(*   - the log store      (useTicStore,        src/unnamed/part_000)       *)
(*   - the feedback store (useSuggestionStore, src/unnamed/part_001)       *)
(* Every store operation is an async function; it is cut into one action   *)
(* per synchronous segment (the code between two awaits), which is the     *)
(* unit of atomicity of the single-threaded runtime.                       *)
(***************************************************************************)
EXTENDS Integers, Sequences, FiniteSets, TLC

\* ------------------------------------------------------------------ bounds
MaxCalls == 3            \* top-level store calls issued in one behaviour
MaxRecentCalls == 11     \* logTic calls issued in the create-only scenario
FewCalls == 2            \* the same, in the two-call scenarios
MaxTime == 2             \* last instant of the simulated clock
MaxClock == 3            \* the same, in the scenarios of the cooldown
MaxRestarts == 1         \* restarts of the application in one behaviour

\* ------------------------------------------------------- program constants
RecentMax == 10          \* recentLogs is cut to its first 10 entries
NullDate == 0            \* lastSync: null (real instants start at 1)
null == "null"           \* error: null, userId: null
NoFile == <<>>           \* loadString finds nothing under the key; else <<text>>
\* saveString(key, text) settles: it resolves (TRUE), or the device storage
\* fails and it rejects (FALSE)
SaveOutcomes == BOOLEAN
\* The clock counts half hours.
CACHE_DURATION == 1      \* 1000 * 60 * 30 ms
GenerationCooldown == 2  \* 3600000 ms
Week == 336              \* 7 * 24 * 60 * 60 * 1000 ms

VARIABLES
  userId,        \* useRootStore.getState().userId
  now,           \* Date.now() / new Date()
  uuids,         \* number of uuid.v4() values drawn so far
  srvIds,        \* number of ids the server has assigned so far
  budget,        \* top-level calls the environment may still issue
  tic,           \* state of useTicStore
  ticDisk,       \* what saveString(STORAGE_KEY, ...) last wrote for the log store
  logTicCalls,   \* every logTic call that passed the identity check
  syncTicCalls,  \* every syncTicLogs call
  editTicCalls,  \* every deleteTicLog / updateTicLog call
  sug,           \* state of useSuggestionStore
  sugDisk,       \* what persistState last wrote for the feedback store
  feedbackCalls, \* every provideFeedback call that passed the identity check
  syncFbCalls,   \* every syncUserFeedback call
  historyCalls,  \* every getTicHistory call
  genCalls,      \* every generatePersonalizedSuggestions call
  boot,          \* the startup load of each store, and the restarts so far
  loadCalls      \* every fetchTicTypes and fetchSuggestionsForTicType call

envVars == <<userId, now, uuids, srvIds, budget>>
ticVars == <<tic, ticDisk, logTicCalls, syncTicCalls, editTicCalls>>
sugVars == <<sug, sugDisk, feedbackCalls, syncFbCalls>>
readVars == <<historyCalls, genCalls>>
vars == <<envVars, ticVars, sugVars, readVars, boot, loadCalls>>

\* ----------------------------------------------------------------- helpers
Min(a, b) == IF a < b THEN a ELSE b

\* obj[k] = v
Put(f, k, v) == (k :> v) @@ f

\* delete obj[k]
Remove(f, k) == [x \in DOMAIN f \ {k} |-> f[x]]

\* array.slice(0, n)
Slice0(seq, n) == SubSeq(seq, 1, Min(n, Len(seq)))

\* array.map(F)
Map(seq, F(_)) == [i \in DOMAIN seq |-> F(seq[i])]

\* array.includes(x): SameValueZero on each element
Includes(seq, x) == \E i \in DOMAIN seq : seq[i] = x

\* a uuid.v4() value and a server-assigned id; the two spaces are disjoint
TempId(n) == <<"uuid", n>>
ServerId(n) == <<"srv", n>>
IsTempId(id) == id[1] = "uuid"

\* ============================================================== log store
TicInitialState ==
  [ error       |-> null,
    ticLogs     |-> <<>>,
    lastSync    |-> NullDate,
    isLoading   |-> FALSE,
    recentLogs  |-> <<>>,
    pendingLogs |-> <<>>,
    ticTypes    |-> <<>>,
    cachedHistoryRanges |-> <<>> ]

\* an optimistic update that prepends and does not cut
LogTicOptimisticUncut(s, newLog) ==
  [s EXCEPT !.ticLogs     = Put(@, newLog.id, newLog),
            !.pendingLogs = Append(@, newLog),
            !.recentLogs  = <<newLog>> \o @]

\* logTic, optimistic update
LogTicOptimistic(s, newLog) ==
  [s EXCEPT !.ticLogs     = Put(@, newLog.id, newLog),
            !.pendingLogs = Append(@, newLog),
            !.recentLogs  = Slice0(<<newLog>> \o @, RecentMax)]

\* a confirmation that also drops the cached range reads
LogTicConfirmedInvalidating(s, tempId, savedLog) ==
  [s EXCEPT !.ticLogs     = Put(Remove(@, tempId), savedLog.id, savedLog),
            !.pendingLogs = SelectSeq(@, LAMBDA log : log.id # tempId),
            !.recentLogs  = Map(@, LAMBDA log : IF log.id = tempId THEN savedLog ELSE log),
            !.cachedHistoryRanges = <<>>]

\* logTic, the update made when the POST was answered ok
LogTicConfirmed(s, tempId, savedLog) ==
  [s EXCEPT !.ticLogs     = Put(Remove(@, tempId), savedLog.id, savedLog),
            !.pendingLogs = SelectSeq(@, LAMBDA log : log.id # tempId),
            !.recentLogs  = Map(@, LAMBDA log : IF log.id = tempId THEN savedLog ELSE log)]

\* logTic, the update made in the catch block
LogTicRolledBack(s, tempId) ==
  [s EXCEPT !.error      = "Failed to sync tic log",
            !.ticLogs    = Remove(@, tempId),
            !.recentLogs = SelectSeq(@, LAMBDA log : log.id # tempId)]

\* Bookkeeping: another operation acted on the log store while call c awaited.
Interleave(cs, self) ==
  [i \in DOMAIN cs |->
     IF i # self /\ cs[i].pc = "fetch" THEN [cs[i] EXCEPT !.alone = FALSE] ELSE cs[i]]

InFlight(cs) == {i \in DOMAIN cs : cs[i].pc = "fetch"}

\* logTic called without an owning identity: sets the error and returns
LogTicUnauthenticated ==
  /\ budget > 0
  /\ userId = null
  /\ budget' = budget - 1
  /\ tic' = [tic EXCEPT !.error = "User not authenticated"]
  /\ logTicCalls' = Interleave(logTicCalls, 0)
  /\ UNCHANGED <<boot, loadCalls, userId, now, uuids, srvIds, ticDisk, syncTicCalls, editTicCalls, sugVars, readVars>>

\* logTic up to its first await: the optimistic update and the POST
LogTicCall ==
  /\ budget > 0
  /\ userId # null
  /\ budget' = budget - 1
  /\ uuids' = uuids + 1
  /\ LET tempId == TempId(uuids + 1)
         newLog == [id |-> tempId, userId |-> userId, timestamp |-> now,
                    data |-> Len(logTicCalls) + 1, notes |-> 0]
     IN /\ tic' = LogTicOptimistic(tic, newLog)
        /\ logTicCalls' = Append(Interleave(logTicCalls, 0),
                                 [pc |-> "fetch", tempId |-> tempId, newLog |-> newLog,
                                  savedId |-> tempId, alone |-> TRUE,
                                  pre |-> [ticLogs |-> tic.ticLogs,
                                           recentLogs |-> tic.recentLogs,
                                           pendingLogs |-> tic.pendingLogs,
                                           error |-> tic.error]])
  /\ UNCHANGED <<boot, loadCalls, userId, now, srvIds, ticDisk, syncTicCalls, editTicCalls, sugVars, readVars>>

\* logTic after an ok response: savedLog is the record under its server id
LogTicOk(c) ==
  /\ logTicCalls[c].pc = "fetch"
  /\ srvIds' = srvIds + 1
  /\ LET savedLog == [logTicCalls[c].newLog EXCEPT !.id = ServerId(srvIds + 1)]
     IN /\ tic' = LogTicConfirmed(tic, logTicCalls[c].tempId, savedLog)
        /\ logTicCalls' = [Interleave(logTicCalls, c) EXCEPT ![c].pc = "confirmed",
                                                            ![c].savedId = savedLog.id]
  /\ UNCHANGED <<boot, loadCalls, userId, now, uuids, budget, ticDisk, syncTicCalls, editTicCalls, sugVars, readVars>>

\* logTic after a failed fetch or a non-ok response
LogTicFail(c) ==
  /\ logTicCalls[c].pc = "fetch"
  /\ tic' = LogTicRolledBack(tic, logTicCalls[c].tempId)
  /\ logTicCalls' = [Interleave(logTicCalls, c) EXCEPT ![c].pc = "failed"]
  /\ UNCHANGED <<boot, loadCalls, envVars, ticDisk, syncTicCalls, editTicCalls, sugVars, readVars>>

\* A date field that holds the ISO string of instant d, not a Date: a value
\* apart from every Date (the instants) and from null.
IsoString(d) == 0 - d
IsIsoString(x) == x < 0

\* JSON.stringify of a Date and of a nullable Date: the ISO string, or null;
\* of a string, the string
DateToJson(d) ==
  IF d = NullDate THEN <<"null">> ELSE IF IsIsoString(d) THEN <<"iso", 0 - d>> ELSE <<"iso", d>>

LogToJson(log) == [log EXCEPT !.timestamp = DateToJson(@)]

\* JSON.stringify(get()) of the log store: every data field of the state
\* (functions are dropped), Dates as ISO strings, the cache entries' timestamp
\* a number
TicToJson(s) ==
  [ error       |-> s.error,
    ticLogs     |-> [id \in DOMAIN s.ticLogs |-> LogToJson(s.ticLogs[id])],
    lastSync    |-> DateToJson(s.lastSync),
    isLoading   |-> s.isLoading,
    recentLogs  |-> Map(s.recentLogs, LogToJson),
    pendingLogs |-> Map(s.pendingLogs, LogToJson),
    ticTypes    |-> s.ticTypes,
    cachedHistoryRanges |->
      [key \in DOMAIN s.cachedHistoryRanges |->
         [s.cachedHistoryRanges[key] EXCEPT !.logs = Map(@, LogToJson)]] ]

\* The body of the ok response of POST /api/tics/sync for the logs sent: the
\* server's records of them, under ids it assigns or under the ids it was sent.
SyncedLogs(sent, assign, base) ==
  [i \in DOMAIN sent |-> IF assign THEN [sent[i] EXCEPT !.id = ServerId(base + i)] ELSE sent[i]]

\* syncedLogs.forEach(log => { state.ticLogs[log.id] = log })
MergeLogs(logs, synced) ==
  [id \in DOMAIN logs \cup {synced[i].id : i \in DOMAIN synced} |->
     IF \E i \in DOMAIN synced : synced[i].id = id
       THEN synced[CHOOSE i \in DOMAIN synced : synced[i].id = id]
       ELSE logs[id]]

\* syncTicLogs, the update made when the sync POST was answered ok
SyncTicLogsApplied(s, synced) ==
  [s EXCEPT !.pendingLogs = <<>>,
            !.lastSync    = now,
            !.ticLogs     = MergeLogs(@, synced)]

\* syncTicLogs up to its first await. With nothing pending the try block
\* returns and the finally block clears isLoading in the same segment.
SyncTicLogsCall ==
  /\ budget > 0
  /\ budget' = budget - 1
  /\ IF Len(tic.pendingLogs) = 0
       THEN /\ tic' = [tic EXCEPT !.isLoading = FALSE]
            /\ syncTicCalls' = Append(syncTicCalls,
                 [pc |-> "empty", sent |-> <<>>, start |-> now, lastSync |-> tic.lastSync,
                  snap |-> NoFile])
       ELSE /\ tic' = [tic EXCEPT !.isLoading = TRUE]
            /\ syncTicCalls' = Append(syncTicCalls,
                 [pc |-> "fetch", sent |-> tic.pendingLogs, start |-> now,
                  lastSync |-> tic.lastSync, snap |-> NoFile])
  /\ logTicCalls' = Interleave(logTicCalls, 0)
  /\ UNCHANGED <<boot, loadCalls, userId, now, uuids, srvIds, ticDisk, editTicCalls, sugVars, readVars>>

\* syncTicLogs after an ok response, up to the await of saveString
SyncTicLogsOk(c, assign) ==
  /\ syncTicCalls[c].pc = "fetch"
  /\ LET sent == syncTicCalls[c].sent
         applied == SyncTicLogsApplied(tic, SyncedLogs(sent, assign, srvIds))
     IN /\ tic' = applied
        /\ srvIds' = IF assign THEN srvIds + Len(sent) ELSE srvIds
        /\ syncTicCalls' = [syncTicCalls EXCEPT ![c].pc = "save",
                                                ![c].snap = <<TicToJson(applied)>>]
  /\ logTicCalls' = Interleave(logTicCalls, 0)
  /\ UNCHANGED <<boot, loadCalls, userId, now, uuids, budget, ticDisk, editTicCalls, sugVars, readVars>>

\* syncTicLogs after a failed fetch or a non-ok response: catch, then finally
SyncTicLogsFail(c) ==
  /\ syncTicCalls[c].pc = "fetch"
  /\ tic' = [tic EXCEPT !.error = "Failed to sync tic logs", !.isLoading = FALSE]
  /\ syncTicCalls' = [syncTicCalls EXCEPT ![c].pc = "failed"]
  /\ logTicCalls' = Interleave(logTicCalls, 0)
  /\ UNCHANGED <<boot, loadCalls, envVars, ticDisk, editTicCalls, sugVars, readVars>>

\* syncTicLogs after saveString: resolved (finally), or rejected (catch, finally)
SyncTicLogsSaved(c, saved) ==
  /\ syncTicCalls[c].pc = "save"
  /\ IF saved
       THEN /\ ticDisk' = syncTicCalls[c].snap
            /\ tic' = [tic EXCEPT !.isLoading = FALSE]
       ELSE /\ ticDisk' = ticDisk
            /\ tic' = [tic EXCEPT !.error = "Failed to sync tic logs", !.isLoading = FALSE]
  /\ syncTicCalls' = [syncTicCalls EXCEPT ![c].pc = IF saved THEN "synced" ELSE "unsaved"]
  /\ logTicCalls' = Interleave(logTicCalls, 0)
  /\ UNCHANGED <<boot, loadCalls, envVars, editTicCalls, sugVars, readVars>>

\* deleteTicLog, the update made when the DELETE was answered ok
DeleteTicLogApplied(s, logId) ==
  [s EXCEPT !.ticLogs    = Remove(@, logId),
            !.recentLogs = SelectSeq(@, LAMBDA log : log.id # logId)]

\* updateTicLog, the update made when the PATCH was answered ok
UpdateTicLogApplied(s, logId, updatedLog) ==
  [s EXCEPT !.ticLogs    = Put(@, logId, updatedLog),
            !.recentLogs = Map(@, LAMBDA log : IF log.id = logId THEN updatedLog ELSE log)]

\* a record the server holds that no logTic call of this session created
RemoteLog(id) == [id |-> id, userId |-> "u1", timestamp |-> 1, data |-> 0, notes |-> 0]

\* an id the server knows and the primary mapping does not hold
AbsentId == ServerId(0)

\* deleteTicLog / updateTicLog up to the await of fetch. orig is the record the
\* request is about: the one the mapping holds under logId or, the mapping
\* holding none, the server's.
EditTicLogCall(kind, logId) ==
  /\ budget > 0
  /\ budget' = budget - 1
  /\ tic' = [tic EXCEPT !.isLoading = TRUE]
  /\ editTicCalls' = Append(editTicCalls,
       [pc |-> "fetch", kind |-> kind, logId |-> logId,
        orig |-> IF logId \in DOMAIN tic.ticLogs THEN tic.ticLogs[logId] ELSE RemoteLog(logId),
        present |-> logId \in DOMAIN tic.ticLogs])
  /\ logTicCalls' = Interleave(logTicCalls, 0)
  /\ UNCHANGED <<boot, loadCalls, userId, now, uuids, srvIds, ticDisk, syncTicCalls, sugVars, readVars>>

\* after an ok response; the PATCH answers with the record as updated
EditTicLogOk(c) ==
  /\ editTicCalls[c].pc = "fetch"
  /\ LET logId == editTicCalls[c].logId
         updatedLog == [editTicCalls[c].orig EXCEPT !.notes = 1]
         applied == IF editTicCalls[c].kind = "delete"
                      THEN DeleteTicLogApplied(tic, logId)
                      ELSE UpdateTicLogApplied(tic, logId, updatedLog)
     IN tic' = [applied EXCEPT !.isLoading = FALSE]
  /\ editTicCalls' = [editTicCalls EXCEPT ![c].pc = "ok"]
  /\ logTicCalls' = Interleave(logTicCalls, 0)
  /\ UNCHANGED <<boot, loadCalls, envVars, ticDisk, syncTicCalls, sugVars, readVars>>

\* a catch block that goes through with the edit locally
EditTicLogFailApplied(c) ==
  /\ editTicCalls[c].pc = "fetch"
  /\ LET logId == editTicCalls[c].logId
         failed == [tic EXCEPT !.error = "Failed to delete tic log", !.isLoading = FALSE]
     IN tic' = IF editTicCalls[c].kind = "delete"
                 THEN DeleteTicLogApplied(failed, logId)
                 ELSE UpdateTicLogApplied(failed, logId, [editTicCalls[c].orig EXCEPT !.notes = 1])
  /\ editTicCalls' = [editTicCalls EXCEPT ![c].pc = "failed"]
  /\ logTicCalls' = Interleave(logTicCalls, 0)
  /\ UNCHANGED <<boot, loadCalls, envVars, ticDisk, syncTicCalls, sugVars, readVars>>

\* after a failed fetch or a non-ok response: catch, then finally
EditTicLogFail(c) ==
  /\ editTicCalls[c].pc = "fetch"
  /\ tic' = [tic EXCEPT !.error = IF editTicCalls[c].kind = "delete"
                                    THEN "Failed to delete tic log"
                                    ELSE "Failed to update tic log",
                        !.isLoading = FALSE]
  /\ editTicCalls' = [editTicCalls EXCEPT ![c].pc = "failed"]
  /\ logTicCalls' = Interleave(logTicCalls, 0)
  /\ UNCHANGED <<boot, loadCalls, envVars, ticDisk, syncTicCalls, sugVars, readVars>>

\* `${startDate.toISOString()}-${endDate.toISOString()}`
CacheKey(startDate, endDate) == <<startDate, endDate>>

\* a cache check that still trusts an entry 30 minutes old
CachedOrJustExpired(s, cacheKey) ==
  /\ cacheKey \in DOMAIN s.cachedHistoryRanges
  /\ now - s.cachedHistoryRanges[cacheKey].timestamp <= CACHE_DURATION

\* cached && Date.now() - cached.timestamp < CACHE_DURATION
Cached(s, cacheKey) ==
  /\ cacheKey \in DOMAIN s.cachedHistoryRanges
  /\ now - s.cachedHistoryRanges[cacheKey].timestamp < CACHE_DURATION

\* getTicHistory, the update made when the GET was answered ok
GetTicHistoryCached(s, cacheKey, logs) ==
  [s EXCEPT !.cachedHistoryRanges = Put(@, cacheKey, [logs |-> logs, timestamp |-> now])]

\* a catch block that caches the empty result it returns
GetTicHistoryFailedCached(s, cacheKey) ==
  [s EXCEPT !.error = "Failed to fetch tic history",
            !.cachedHistoryRanges = Put(@, cacheKey, [logs |-> <<>>, timestamp |-> now])]

\* getTicHistory, the update made in the catch block
GetTicHistoryFailed(s, cacheKey) ==
  [s EXCEPT !.error = "Failed to fetch tic history"]

\* getTicHistory up to its first await, called by a screen (parent = 0) or by
\* generatePersonalizedSuggestions call parent; hcs is the call list the
\* segment starts from. A fresh cache entry is returned at once. In the record
\* of the call, cached is <<the entry found>> or <<>>, result is <<logs>> once
\* the call has returned, returned the number of calls that had returned when
\* it was made, mapping the primary mapping when it was made.
GetTicHistoryFrom(cacheKey, parent, hcs) ==
  LET call == [pc |-> "fetch", cacheKey |-> cacheKey, parent |-> parent, start |-> now,
               cached |-> IF cacheKey \in DOMAIN tic.cachedHistoryRanges
                            THEN <<tic.cachedHistoryRanges[cacheKey]>> ELSE <<>>,
               result |-> <<>>,
               returned |-> Cardinality({h \in DOMAIN hcs : hcs[h].pc # "fetch"}),
               mapping |-> tic.ticLogs]
  IN IF Cached(tic, cacheKey)
       THEN /\ tic' = tic
            /\ logTicCalls' = logTicCalls
            /\ historyCalls' = Append(hcs,
                 [call EXCEPT !.pc = "hit",
                              !.result = <<tic.cachedHistoryRanges[cacheKey].logs>>])
       ELSE /\ tic' = [tic EXCEPT !.isLoading = TRUE]
            /\ logTicCalls' = Interleave(logTicCalls, 0)
            /\ historyCalls' = Append(hcs, call)

\* getTicHistory called by a screen
GetTicHistoryCall(startDate, endDate) ==
  /\ budget > 0
  /\ budget' = budget - 1
  /\ GetTicHistoryFrom(CacheKey(startDate, endDate), 0, historyCalls)
  /\ UNCHANGED <<boot, loadCalls, userId, now, uuids, srvIds, ticDisk, syncTicCalls, editTicCalls, sugVars,
                 genCalls>>

\* getTicHistory returns logs to generatePersonalizedSuggestions call g, which
\* goes on to its POST
Return(gcs, g, logs) ==
  IF g = 0 THEN gcs ELSE [gcs EXCEPT ![g].pc = "generate", ![g].ticLogs = logs]

\* getTicHistory after an ok response with body logs: try, then finally
GetTicHistoryOk(h, logs) ==
  /\ historyCalls[h].pc = "fetch"
  /\ tic' = [GetTicHistoryCached(tic, historyCalls[h].cacheKey, logs) EXCEPT !.isLoading = FALSE]
  /\ historyCalls' = [historyCalls EXCEPT ![h].pc = "cached", ![h].result = <<logs>>,
                                           ![h].mapping = tic.ticLogs]
  /\ genCalls' = Return(genCalls, historyCalls[h].parent, logs)
  /\ logTicCalls' = Interleave(logTicCalls, 0)
  /\ UNCHANGED <<boot, loadCalls, envVars, ticDisk, syncTicCalls, editTicCalls, sugVars>>

\* getTicHistory after a failed fetch or a non-ok response: catch, then finally
GetTicHistoryFail(h) ==
  /\ historyCalls[h].pc = "fetch"
  /\ tic' = [GetTicHistoryFailed(tic, historyCalls[h].cacheKey) EXCEPT !.isLoading = FALSE]
  /\ historyCalls' = [historyCalls EXCEPT ![h].pc = "failed", ![h].result = << <<>> >>]
  /\ genCalls' = Return(genCalls, historyCalls[h].parent, <<>>)
  /\ logTicCalls' = Interleave(logTicCalls, 0)
  /\ UNCHANGED <<boot, loadCalls, envVars, ticDisk, syncTicCalls, editTicCalls, sugVars>>

\* ========================================================= feedback store
SugInitialState ==
  [ error           |-> null,
    lastSync        |-> NullDate,
    isLoading       |-> FALSE,
    userFeedback    |-> <<>>,
    operationQueue  |-> <<>>,
    pendingFeedback |-> <<>>,
    isSyncing       |-> FALSE,
    suggestions          |-> <<>>,
    suggestionsByTicType |-> <<>>,
    lastAIGeneration     |-> <<>> ]

OpToJson(op) == [op EXCEPT !.timestamp = DateToJson(@)]

\* persistState: the fields picked into persistedData, through JSON.stringify
SugToJson(s) ==
  [ userFeedback   |-> s.userFeedback,
    lastSync       |-> DateToJson(s.lastSync),
    operationQueue |-> Map(s.operationQueue, OpToJson),
    suggestions          |-> s.suggestions,
    suggestionsByTicType |-> s.suggestionsByTicType,
    lastAIGeneration     |->
      [t \in DOMAIN s.lastAIGeneration |-> DateToJson(s.lastAIGeneration[t])] ]

\* provideFeedback, optimistic update
FeedbackOptimistic(s, newFeedback) ==
  [s EXCEPT !.pendingFeedback = Put(@, newFeedback.id, newFeedback),
            !.userFeedback    = Put(@, newFeedback.id, newFeedback)]

\* a confirmation that also clears the error
FeedbackConfirmedClearing(s, feedbackId) ==
  [s EXCEPT !.pendingFeedback = Remove(@, feedbackId), !.error = null]

\* provideFeedback, the update made when the POST was answered ok
FeedbackConfirmed(s, feedbackId) ==
  [s EXCEPT !.pendingFeedback = Remove(@, feedbackId)]

\* the operation provideFeedback pushes in its catch block
QueuedOperation(opId, newFeedback) ==
  [id |-> opId, type |-> "feedback", data |-> newFeedback, timestamp |-> now]

\* a catch block that rolls back and reports, and forgets to enqueue
FeedbackRolledBackNotQueued(s, feedbackId, op) ==
  [s EXCEPT !.error        = "Failed to save feedback",
            !.userFeedback = Remove(@, feedbackId)]

\* provideFeedback, the update made in the catch block
FeedbackRolledBack(s, feedbackId, op) ==
  [s EXCEPT !.error          = "Failed to save feedback",
            !.userFeedback   = Remove(@, feedbackId),
            !.operationQueue = Append(@, op)]

\* if (state.isSyncing) return
SyncGuard(s) == s.isSyncing

\* Inside produce() the recipe reads state.operationQueue through immer's
\* draft: each element the filter callback receives is the draft proxy of the
\* queued object, an object other than the queued object itself.
Draft(op) == [draftOf |-> op]

\* state.operationQueue.filter(op => !operations.includes(op)), where
\* operations holds the plain objects copied before the drain
QueueAfterDrain(queue, operations) ==
  SelectSeq(queue, LAMBDA op : ~Includes(operations, Draft(op)))

\* syncUserFeedback, the update made after the replay loop
SyncFinished(s, operations) ==
  [s EXCEPT !.operationQueue = QueueAfterDrain(@, operations),
            !.lastSync       = now,
            !.isSyncing      = FALSE]

\* a catch block that reports and leaves the flag set
SyncThrewFlagKept(s) == [s EXCEPT !.error = "Sync failed"]

\* syncUserFeedback, the update made in the catch block
SyncThrew(s) == [s EXCEPT !.error = "Sync failed", !.isSyncing = FALSE]

\* The replay loop of drain d from its i-th operation on, run up to its next
\* await: the call of provideFeedback(op.data) up to its fetch (or its throw,
\* which the drain catches), or, after the last operation, the final update up
\* to the await of saveString. s, fcs, scs and u are the
\* store state, the two call lists and the uuid count the segment starts from.
DrainFrom(d, i, s, fcs, scs, u) ==
  LET operations == scs[d].operations IN
  IF i > Len(operations)
    THEN LET done == SyncFinished(s, operations)
         IN /\ sug' = done
            /\ feedbackCalls' = fcs
            /\ syncFbCalls' = [scs EXCEPT ![d].pc = "persist", ![d].i = i,
                                          ![d].snap = <<SugToJson(done)>>]
            /\ uuids' = u
    ELSE IF userId = null
      THEN /\ sug' = SyncThrew(s)
           /\ feedbackCalls' = fcs
           /\ syncFbCalls' = [scs EXCEPT ![d].pc = "threw", ![d].i = i]
           /\ uuids' = u
      ELSE LET feedbackId == TempId(u + 1)
               newFeedback == [operations[i].data EXCEPT !.id = feedbackId,
                                                         !.userId = userId]
           IN /\ sug' = FeedbackOptimistic(s, newFeedback)
              /\ feedbackCalls' = Append(fcs,
                   [pc |-> "fetch", feedbackId |-> feedbackId, newFeedback |-> newFeedback,
                    parent |-> d, op |-> i, snap |-> NoFile, alone |-> TRUE,
                    pre |-> [userFeedback |-> s.userFeedback,
                             operationQueue |-> s.operationQueue]])
              /\ syncFbCalls' = [scs EXCEPT ![d].pc = "replay", ![d].i = i]
              /\ uuids' = u + 1

\* provideFeedback called by a screen without an owning identity: throws
ProvideFeedbackUnauthenticated ==
  /\ budget > 0
  /\ userId = null
  /\ budget' = budget - 1
  /\ UNCHANGED <<boot, loadCalls, userId, now, uuids, srvIds, ticVars, sugVars, readVars>>

\* provideFeedback called by a screen, up to the await of fetch
ProvideFeedbackCall ==
  /\ budget > 0
  /\ userId # null
  /\ budget' = budget - 1
  /\ uuids' = uuids + 1
  /\ LET feedbackId == TempId(uuids + 1)
         newFeedback == [id |-> feedbackId, userId |-> userId,
                         data |-> Len(feedbackCalls) + 1]
     IN /\ sug' = FeedbackOptimistic(sug, newFeedback)
        /\ feedbackCalls' = Append(Interleave(feedbackCalls, 0),
             [pc |-> "fetch", feedbackId |-> feedbackId, newFeedback |-> newFeedback,
              parent |-> 0, op |-> 0, snap |-> NoFile, alone |-> TRUE,
              pre |-> [userFeedback |-> sug.userFeedback,
                       operationQueue |-> sug.operationQueue]])
  /\ UNCHANGED <<boot, loadCalls, userId, now, srvIds, ticVars, sugDisk, syncFbCalls, readVars>>

\* provideFeedback after an ok response, up to the await inside persistState
ProvideFeedbackOk(c) ==
  /\ feedbackCalls[c].pc = "fetch"
  /\ LET confirmed == FeedbackConfirmed(sug, feedbackCalls[c].feedbackId)
     IN /\ sug' = confirmed
        /\ feedbackCalls' = [Interleave(feedbackCalls, c) EXCEPT
                               ![c].pc = "persist", ![c].snap = <<SugToJson(confirmed)>>]
  /\ UNCHANGED <<boot, loadCalls, envVars, ticVars, sugDisk, syncFbCalls, readVars>>

\* A call of provideFeedback settles: a drain that awaits it is resumed
Settle(scs, d) == IF d = 0 THEN scs ELSE [scs EXCEPT ![d].pc = "resume"]

\* provideFeedback after saveString resolved or rejected (persistState logs
\* and swallows the rejection): the call returns
ProvideFeedbackPersisted(c, saved) ==
  /\ feedbackCalls[c].pc = "persist"
  /\ sugDisk' = IF saved THEN feedbackCalls[c].snap ELSE sugDisk
  /\ feedbackCalls' = [feedbackCalls EXCEPT ![c].pc = "confirmed"]
  /\ syncFbCalls' = Settle(syncFbCalls, feedbackCalls[c].parent)
  /\ UNCHANGED <<boot, loadCalls, envVars, ticVars, sug, readVars>>

\* provideFeedback after a failed fetch or a non-ok response: the catch block
\* rolls back and enqueues, and the call returns
ProvideFeedbackFail(c) ==
  /\ feedbackCalls[c].pc = "fetch"
  /\ uuids' = uuids + 1
  /\ sug' = FeedbackRolledBack(sug, feedbackCalls[c].feedbackId,
                               QueuedOperation(TempId(uuids + 1), feedbackCalls[c].newFeedback))
  /\ feedbackCalls' = [Interleave(feedbackCalls, c) EXCEPT ![c].pc = "failed"]
  /\ syncFbCalls' = Settle(syncFbCalls, feedbackCalls[c].parent)
  /\ UNCHANGED <<boot, loadCalls, userId, now, srvIds, budget, ticVars, sugDisk, readVars>>

\* a replay loop that leaves out every other operation
SyncUserFeedbackResumeSkipping(d) ==
  /\ syncFbCalls[d].pc = "resume"
  /\ DrainFrom(d, syncFbCalls[d].i + 2, sug, Interleave(feedbackCalls, 0), syncFbCalls, uuids)
  /\ UNCHANGED <<boot, loadCalls, userId, now, srvIds, budget, ticVars, sugDisk, readVars>>

\* syncUserFeedback resumed after the provideFeedback call it awaited: the
\* replay loop goes on with the next operation
SyncUserFeedbackResume(d) ==
  /\ syncFbCalls[d].pc = "resume"
  /\ DrainFrom(d, syncFbCalls[d].i + 1, sug, Interleave(feedbackCalls, 0), syncFbCalls, uuids)
  /\ UNCHANGED <<boot, loadCalls, userId, now, srvIds, budget, ticVars, sugDisk, readVars>>

\* syncUserFeedback: the guard, and behind it the flag, the snapshot of the
\* queue and the start of the replay loop
SyncUserFeedbackCall ==
  /\ budget > 0
  /\ budget' = budget - 1
  /\ LET call == [pc |-> "busy", operations |-> sug.operationQueue, i |-> 0,
                  start |-> now, lastSync |-> sug.lastSync, snap |-> NoFile]
     IN IF SyncGuard(sug)
          THEN /\ syncFbCalls' = Append(syncFbCalls, call)
               /\ UNCHANGED <<sug, feedbackCalls, uuids>>
          ELSE DrainFrom(Len(syncFbCalls) + 1, 1,
                         [sug EXCEPT !.isSyncing = TRUE, !.error = null],
                         Interleave(feedbackCalls, 0), Append(syncFbCalls, call), uuids)
  /\ UNCHANGED <<boot, loadCalls, userId, now, srvIds, ticVars, sugDisk, readVars>>

\* syncUserFeedback after saveString resolved or rejected: the call returns
SyncUserFeedbackPersisted(d, saved) ==
  /\ syncFbCalls[d].pc = "persist"
  /\ sugDisk' = IF saved THEN syncFbCalls[d].snap ELSE sugDisk
  /\ syncFbCalls' = [syncFbCalls EXCEPT ![d].pc = "synced"]
  /\ UNCHANGED <<boot, loadCalls, envVars, ticVars, sug, feedbackCalls, readVars>>

\* lastGeneration.getTime() of a last generation that is a string (a snapshot
\* read back): a TypeError, thrown before the try block
NotADate(s, ticTypeId) ==
  /\ ticTypeId \in DOMAIN s.lastAIGeneration
  /\ IsIsoString(s.lastAIGeneration[ticTypeId])

\* a cooldown check that reads the last generation of any tic type
InCooldownOfAny(s, ticTypeId) ==
  \E t \in DOMAIN s.lastAIGeneration : now - s.lastAIGeneration[t] < GenerationCooldown

\* lastGeneration && Date.now() - lastGeneration.getTime() < 3600000
InCooldown(s, ticTypeId) ==
  /\ ticTypeId \in DOMAIN s.lastAIGeneration
  /\ now - s.lastAIGeneration[ticTypeId] < GenerationCooldown

\* the body of an ok response of POST /api/suggestions/generate to call g
NewSuggestions(g, ticTypeId, n) ==
  [i \in 1..n |-> [id |-> <<"sug", g, i>>, ticTypeId |-> ticTypeId]]

\* generatePersonalizedSuggestions, the update made when the POST was answered ok
GenerationMerged(s, ticTypeId, newSuggestions) ==
  [s EXCEPT
     !.suggestions = [id \in DOMAIN @ \cup {newSuggestions[i].id : i \in DOMAIN newSuggestions} |->
                        IF \E i \in DOMAIN newSuggestions : newSuggestions[i].id = id
                          THEN newSuggestions[CHOOSE i \in DOMAIN newSuggestions :
                                                newSuggestions[i].id = id]
                          ELSE @[id]],
     !.suggestionsByTicType =
        Put(@, ticTypeId,
            (IF ticTypeId \in DOMAIN @ THEN @[ticTypeId] ELSE <<>>)
              \o [i \in DOMAIN newSuggestions |-> newSuggestions[i].id]),
     !.lastAIGeneration = Put(@, ticTypeId, now),
     !.isLoading = FALSE]

\* generatePersonalizedSuggestions up to its first await: the cooldown check
\* (the call rejects when the check throws), and past it the loading flag and the call of getTicHistory for the last
\* week, whose result it awaits ("history") or has at once from the cache
GeneratePersonalizedSuggestionsCall(ticTypeId) ==
  /\ budget > 0
  /\ budget' = budget - 1
  /\ LET g == Len(genCalls) + 1
         cacheKey == CacheKey(now - Week, now)
         call == [pc |-> "cooldown", ticTypeId |-> ticTypeId, start |-> now,
                  ticLogs |-> <<>>, snap |-> NoFile]
     IN IF NotADate(sug, ticTypeId)
          THEN /\ genCalls' = Append(genCalls, [call EXCEPT !.pc = "threw"])
               /\ UNCHANGED <<tic, logTicCalls, historyCalls, sug, feedbackCalls>>
        ELSE IF InCooldown(sug, ticTypeId)
          THEN /\ genCalls' = Append(genCalls, call)
               /\ UNCHANGED <<tic, logTicCalls, historyCalls, sug, feedbackCalls>>
          ELSE /\ sug' = [sug EXCEPT !.isLoading = TRUE, !.error = null]
               /\ feedbackCalls' = Interleave(feedbackCalls, 0)
               /\ GetTicHistoryFrom(cacheKey, g, historyCalls)
               /\ genCalls' = Append(genCalls,
                    IF Cached(tic, cacheKey)
                      THEN [call EXCEPT !.pc = "generate",
                                        !.ticLogs = tic.cachedHistoryRanges[cacheKey].logs]
                      ELSE [call EXCEPT !.pc = "history"])
  /\ UNCHANGED <<boot, loadCalls, userId, now, uuids, srvIds, ticDisk, syncTicCalls, editTicCalls,
                 sugDisk, syncFbCalls>>

\* after an ok response with n suggestions, up to the await inside persistState
GeneratePersonalizedSuggestionsOk(g, n) ==
  /\ genCalls[g].pc = "generate"
  /\ LET merged == GenerationMerged(sug, genCalls[g].ticTypeId,
                                     NewSuggestions(g, genCalls[g].ticTypeId, n))
     IN /\ sug' = merged
        /\ genCalls' = [genCalls EXCEPT ![g].pc = "persist", ![g].snap = <<SugToJson(merged)>>]
  /\ feedbackCalls' = Interleave(feedbackCalls, 0)
  /\ UNCHANGED <<boot, loadCalls, envVars, ticVars, sugDisk, syncFbCalls, historyCalls>>

\* after a failed fetch or a non-ok response: the catch block
GeneratePersonalizedSuggestionsFail(g) ==
  /\ genCalls[g].pc = "generate"
  /\ sug' = [sug EXCEPT !.error = "Failed to generate personalized suggestions",
                        !.isLoading = FALSE]
  /\ genCalls' = [genCalls EXCEPT ![g].pc = "failed"]
  /\ feedbackCalls' = Interleave(feedbackCalls, 0)
  /\ UNCHANGED <<boot, loadCalls, envVars, ticVars, sugDisk, syncFbCalls, historyCalls>>

\* after saveString resolved or rejected: the call returns
GeneratePersonalizedSuggestionsPersisted(g, saved) ==
  /\ genCalls[g].pc = "persist"
  /\ sugDisk' = IF saved THEN genCalls[g].snap ELSE sugDisk
  /\ genCalls' = [genCalls EXCEPT ![g].pc = "generated"]
  /\ UNCHANGED <<boot, loadCalls, envVars, ticVars, sug, feedbackCalls, syncFbCalls, historyCalls>>

\* clearError of the log store
TicClearError ==
  /\ tic.error # null
  /\ tic' = [tic EXCEPT !.error = null]
  /\ logTicCalls' = Interleave(logTicCalls, 0)
  /\ UNCHANGED <<boot, loadCalls, envVars, ticDisk, syncTicCalls, editTicCalls, sugVars, readVars>>

\* clearError of the feedback store
SugClearError ==
  /\ sug.error # null
  /\ sug' = [sug EXCEPT !.error = null]
  /\ feedbackCalls' = Interleave(feedbackCalls, 0)
  /\ UNCHANGED <<boot, loadCalls, envVars, ticVars, sugDisk, syncFbCalls, readVars>>

\* resetStore of the log store: set(initialState)
TicResetStore ==
  /\ tic' = TicInitialState @@ tic
  /\ logTicCalls' = Interleave(logTicCalls, 0)
  /\ UNCHANGED <<boot, loadCalls, envVars, ticDisk, syncTicCalls, editTicCalls, sugVars, readVars>>

\* fetchTicTypes up to the await of fetch
FetchTicTypesCall ==
  /\ budget > 0
  /\ budget' = budget - 1
  /\ tic' = [tic EXCEPT !.isLoading = TRUE]
  /\ loadCalls' = Append(loadCalls, [op |-> "fetchTicTypes", pc |-> "fetch",
                                     ticTypeId |-> null, snap |-> NoFile])
  /\ logTicCalls' = Interleave(logTicCalls, 0)
  /\ UNCHANGED <<boot, userId, now, uuids, srvIds, ticDisk, syncTicCalls, editTicCalls, sugVars,
                 readVars>>

\* types.reduce((acc, type) => { acc[type.id] = type; return acc }, {})
TypesById(types) ==
  [id \in {types[i].id : i \in DOMAIN types} |->
     types[CHOOSE i \in DOMAIN types : types[i].id = id /\ \A j \in DOMAIN types :
                                          types[j].id = id => j <= i]]

\* fetchTicTypes after an ok response with body types: try, then finally
FetchTicTypesOk(c, types) ==
  /\ loadCalls[c].op = "fetchTicTypes"
  /\ loadCalls[c].pc = "fetch"
  /\ tic' = [tic EXCEPT !.ticTypes = TypesById(types), !.isLoading = FALSE]
  /\ loadCalls' = [loadCalls EXCEPT ![c].pc = "fetched"]
  /\ logTicCalls' = Interleave(logTicCalls, 0)
  /\ UNCHANGED <<boot, envVars, ticDisk, syncTicCalls, editTicCalls, sugVars, readVars>>

\* fetchTicTypes after a failed fetch or a non-ok response: catch, then finally
FetchTicTypesFail(c) ==
  /\ loadCalls[c].op = "fetchTicTypes"
  /\ loadCalls[c].pc = "fetch"
  /\ tic' = [tic EXCEPT !.error = "Failed to fetch tic types", !.isLoading = FALSE]
  /\ loadCalls' = [loadCalls EXCEPT ![c].pc = "failed"]
  /\ logTicCalls' = Interleave(logTicCalls, 0)
  /\ UNCHANGED <<boot, envVars, ticDisk, syncTicCalls, editTicCalls, sugVars, readVars>>

\* fetchSuggestionsForTicType up to the await of fetch
FetchSuggestionsForTicTypeCall(ticTypeId) ==
  /\ budget > 0
  /\ budget' = budget - 1
  /\ sug' = [sug EXCEPT !.isLoading = TRUE, !.error = null]
  /\ loadCalls' = Append(loadCalls, [op |-> "fetchSuggestionsForTicType", pc |-> "fetch",
                                     ticTypeId |-> ticTypeId, snap |-> NoFile])
  /\ feedbackCalls' = Interleave(feedbackCalls, 0)
  /\ UNCHANGED <<boot, userId, now, uuids, srvIds, ticVars, sugDisk, syncFbCalls, readVars>>

\* fetchSuggestionsForTicType, the update made when the GET was answered ok
SuggestionsFetched(s, ticTypeId, suggestions) ==
  [s EXCEPT
     !.suggestions = [id \in DOMAIN @ \cup {suggestions[i].id : i \in DOMAIN suggestions} |->
                        IF \E i \in DOMAIN suggestions : suggestions[i].id = id
                          THEN suggestions[CHOOSE i \in DOMAIN suggestions : suggestions[i].id = id]
                          ELSE @[id]],
     !.suggestionsByTicType =
        Put(@, ticTypeId, [i \in DOMAIN suggestions |-> suggestions[i].id]),
     !.isLoading = FALSE]

\* the body of an ok response of GET /api/suggestions/:ticTypeId: the first n
\* suggestions of the server's catalogue (generated ones are numbered from 1)
ServerSuggestions(ticTypeId, n) ==
  [i \in 1..n |-> [id |-> <<"sug", 0, i>>, ticTypeId |-> ticTypeId]]

\* after an ok response with n suggestions, up to the await inside persistState
FetchSuggestionsForTicTypeOk(c, n) ==
  /\ loadCalls[c].op = "fetchSuggestionsForTicType"
  /\ loadCalls[c].pc = "fetch"
  /\ LET fetched == SuggestionsFetched(sug, loadCalls[c].ticTypeId,
                                        ServerSuggestions(loadCalls[c].ticTypeId, n))
     IN /\ sug' = fetched
        /\ loadCalls' = [loadCalls EXCEPT ![c].pc = "persist", ![c].snap = <<SugToJson(fetched)>>]
  /\ feedbackCalls' = Interleave(feedbackCalls, 0)
  /\ UNCHANGED <<boot, envVars, ticVars, sugDisk, syncFbCalls, readVars>>

\* after a failed fetch or a non-ok response: the catch block
FetchSuggestionsForTicTypeFail(c) ==
  /\ loadCalls[c].op = "fetchSuggestionsForTicType"
  /\ loadCalls[c].pc = "fetch"
  /\ sug' = [sug EXCEPT !.error = "Failed to fetch suggestions", !.isLoading = FALSE]
  /\ loadCalls' = [loadCalls EXCEPT ![c].pc = "failed"]
  /\ feedbackCalls' = Interleave(feedbackCalls, 0)
  /\ UNCHANGED <<boot, envVars, ticVars, sugDisk, syncFbCalls, readVars>>

\* after saveString resolved or rejected: the call returns
FetchSuggestionsForTicTypePersisted(c, saved) ==
  /\ loadCalls[c].pc = "persist"
  /\ sugDisk' = IF saved THEN loadCalls[c].snap ELSE sugDisk
  /\ loadCalls' = [loadCalls EXCEPT ![c].pc = "fetched"]
  /\ UNCHANGED <<boot, envVars, ticVars, sug, feedbackCalls, syncFbCalls, readVars>>

\* retry: a drain when the queue holds something, else nothing
Retry ==
  IF Len(sug.operationQueue) > 0
    THEN SyncUserFeedbackCall
    ELSE /\ budget > 0
         /\ budget' = budget - 1
         /\ UNCHANGED <<boot, loadCalls, userId, now, uuids, srvIds, ticVars, sugVars, readVars>>

\* ================================================================ startup
\* JSON.parse of a date field: null, or the ISO string as it stands
ParsedDate(json) == IF json[1] = "null" THEN NullDate ELSE IsoString(json[2])

\* parsed.lastSync ? new Date(parsed.lastSync) : null
RevivedDate(json) == IF json[1] = "null" THEN NullDate ELSE json[2]

LogFromJson(log) == [log EXCEPT !.timestamp = ParsedDate(@)]

\* loadPersistedState of the log store: the parsed snapshot, lastSync revived
TicFromJson(json) ==
  [ error       |-> json.error,
    ticLogs     |-> [id \in DOMAIN json.ticLogs |-> LogFromJson(json.ticLogs[id])],
    lastSync    |-> RevivedDate(json.lastSync),
    isLoading   |-> json.isLoading,
    recentLogs  |-> Map(json.recentLogs, LogFromJson),
    pendingLogs |-> Map(json.pendingLogs, LogFromJson),
    ticTypes    |-> json.ticTypes,
    cachedHistoryRanges |->
      [key \in DOMAIN json.cachedHistoryRanges |->
         [json.cachedHistoryRanges[key] EXCEPT !.logs = Map(@, LogFromJson)]] ]

OpFromJson(op) == [op EXCEPT !.timestamp = ParsedDate(@)]

\* loadPersistedState of the feedback store: the parsed snapshot
SugFromJson(json) ==
  [ userFeedback   |-> json.userFeedback,
    lastSync       |-> ParsedDate(json.lastSync),
    operationQueue |-> Map(json.operationQueue, OpFromJson),
    suggestions          |-> json.suggestions,
    suggestionsByTicType |-> json.suggestionsByTicType,
    lastAIGeneration     |->
      [t \in DOMAIN json.lastAIGeneration |-> ParsedDate(json.lastAIGeneration[t])] ]

\* what loadPersistedState resolves to: {} when loadString rejects or finds
\* nothing, else the snapshot read
TicPersistedState(loaded) ==
  IF loaded /\ ticDisk # NoFile THEN TicFromJson(ticDisk[1]) ELSE <<>>

SugPersistedState(loaded) ==
  IF loaded /\ sugDisk # NoFile THEN SugFromJson(sugDisk[1]) ELSE <<>>

\* setState({...initialState, ...persistedState}) on state s
Hydrated(s, initialState, persistedState) == (persistedState @@ initialState) @@ s

\* the startup load of the log store completes (loadString resolved or
\* rejected) and its then-callback runs
TicHydrate(loaded) ==
  /\ boot.tic = "loading"
  /\ boot' = [boot EXCEPT !.tic = "hydrated"]
  /\ tic' = Hydrated(tic, TicInitialState, TicPersistedState(loaded))
  /\ logTicCalls' = Interleave(logTicCalls, 0)
  /\ UNCHANGED <<loadCalls, envVars, ticDisk, syncTicCalls, editTicCalls, sugVars, readVars>>

\* the startup load of the feedback store completes
SugHydrate(loaded) ==
  /\ boot.sug = "loading"
  /\ boot' = [boot EXCEPT !.sug = "hydrated"]
  /\ sug' = Hydrated(sug, SugInitialState, SugPersistedState(loaded))
  /\ feedbackCalls' = Interleave(feedbackCalls, 0)
  /\ UNCHANGED <<loadCalls, envVars, ticVars, sugDisk, syncFbCalls, readVars>>

\* The application is closed and started again: both modules are evaluated
\* anew, the stores are created from initialState and the startup loads are
\* issued; the calls of the old process are gone, the device storage stays.
Restart ==
  /\ boot.restarts < MaxRestarts
  /\ boot' = [tic |-> "loading", sug |-> "loading", restarts |-> boot.restarts + 1]
  /\ tic' = TicInitialState
  /\ sug' = SugInitialState
  /\ logTicCalls' = <<>>
  /\ syncTicCalls' = <<>>
  /\ editTicCalls' = <<>>
  /\ feedbackCalls' = <<>>
  /\ syncFbCalls' = <<>>
  /\ historyCalls' = <<>>
  /\ genCalls' = <<>>
  /\ loadCalls' = <<>>
  /\ UNCHANGED <<envVars, ticDisk, sugDisk>>

\* ============================================================ environment
\* the identity provider signs the user out, or in again
SetUserId(u) ==
  /\ userId # u
  /\ userId' = u
  /\ UNCHANGED <<boot, loadCalls, now, uuids, srvIds, budget, ticVars, sugVars, readVars>>

\* time passes
Tick ==
  /\ now < MaxTime
  /\ now' = now + 1
  /\ UNCHANGED <<boot, loadCalls, userId, uuids, srvIds, budget, ticVars, sugVars, readVars>>

\* time passes, up to the later horizon
Elapse ==
  /\ now < MaxClock
  /\ now' = now + 1
  /\ UNCHANGED <<boot, loadCalls, userId, uuids, srvIds, budget, ticVars, sugVars, readVars>>

\* ========================================================= specifications
InitStores ==
  /\ userId = "u1"
  /\ now = 1
  /\ uuids = 0
  /\ srvIds = 0
  /\ tic = TicInitialState
  /\ ticDisk = NoFile
  /\ logTicCalls = <<>>
  /\ syncTicCalls = <<>>
  /\ editTicCalls = <<>>
  /\ sug = SugInitialState
  /\ sugDisk = NoFile
  /\ feedbackCalls = <<>>
  /\ syncFbCalls = <<>>
  /\ historyCalls = <<>>
  /\ genCalls = <<>>
  /\ loadCalls = <<>>

\* The stores of a fresh install once their startup loads have found nothing.
InitCommon == InitStores /\ boot = [tic |-> "hydrated", sug |-> "hydrated", restarts |-> 0]

\* The create-only scenario of the log store: logTic called again and again,
\* each call issued after the previous one has returned.
InitRecent == InitCommon /\ budget = MaxRecentCalls

LogTicCallBounded == InFlight(logTicCalls) = {} /\ LogTicCall

NextRecent ==
  \/ LogTicCallBounded
  \/ \E c \in DOMAIN logTicCalls : LogTicOk(c)
  \/ \E c \in DOMAIN logTicCalls : LogTicFail(c)

SpecRecent == InitRecent /\ [][NextRecent]_vars

\* The create-only scenario with a late confirmation, every call confirmed:
\* the first call may still await its answer while the later ones are issued,
\* each of them after the one before it has returned.
LogTicCallOverlapping == InFlight(logTicCalls) \subseteq {1} /\ LogTicCall

NextOverlap ==
  \/ LogTicCallOverlapping
  \/ \E c \in DOMAIN logTicCalls : LogTicOk(c)

SpecOverlap == InitRecent /\ [][NextOverlap]_vars

\* Both stores, any interleaving of at most MaxCalls calls.
Init == InitCommon /\ budget = MaxCalls

NextTic ==
  \/ LogTicUnauthenticated
  \/ LogTicCall
  \/ \E c \in DOMAIN logTicCalls : LogTicOk(c)
  \/ \E c \in DOMAIN logTicCalls : LogTicFail(c)
  \/ SyncTicLogsCall
  \/ \E c \in DOMAIN syncTicCalls : \E assign \in BOOLEAN : SyncTicLogsOk(c, assign)
  \/ \E c \in DOMAIN syncTicCalls : SyncTicLogsFail(c)
  \/ \E c \in DOMAIN syncTicCalls : \E saved \in SaveOutcomes : SyncTicLogsSaved(c, saved)
  \/ \E kind \in {"delete", "update"} : \E logId \in DOMAIN tic.ticLogs :
       EditTicLogCall(kind, logId)
  \/ \E c \in DOMAIN editTicCalls : EditTicLogOk(c)
  \/ \E c \in DOMAIN editTicCalls : EditTicLogFail(c)

\* the answers of the collaborators to the feedback store, and what they resume
SugAnswered ==
  \/ \E c \in DOMAIN feedbackCalls : ProvideFeedbackOk(c)
  \/ \E c \in DOMAIN feedbackCalls : ProvideFeedbackFail(c)
  \/ \E c \in DOMAIN feedbackCalls : \E saved \in SaveOutcomes : ProvideFeedbackPersisted(c, saved)
  \/ \E d \in DOMAIN syncFbCalls : SyncUserFeedbackResume(d)
  \/ \E d \in DOMAIN syncFbCalls : \E saved \in SaveOutcomes : SyncUserFeedbackPersisted(d, saved)

NextSug ==
  \/ ProvideFeedbackUnauthenticated
  \/ ProvideFeedbackCall
  \/ SyncUserFeedbackCall
  \/ SugAnswered

EnvNext ==
  \/ Tick
  \/ \E u \in {"u1", null} : SetUserId(u)

Next == NextTic \/ NextSug \/ EnvNext \/ TicClearError \/ SugClearError

Spec == Init /\ [][Next]_vars

InitFew == InitCommon /\ budget = FewCalls

SpecFew == InitFew /\ [][Next]_vars

\* One store at a time.
SpecTic == Init /\ [][NextTic \/ EnvNext]_vars

SpecSug == Init /\ [][NextSug \/ EnvNext]_vars

\* The feedback store when every call of a collaborator is answered and every
\* resumed function runs: fetch and saveString settle, the event loop runs
\* each continuation.
FairSpecSug == InitFew /\ [][NextSug \/ EnvNext]_vars /\ WF_vars(SugAnswered)

\* The range reads of the log store: the bounds the screens ask for, and the
\* bodies the server answers with.
Ranges == {<<1, 2>>, <<1, 3>>}

HistoryBodies == {<<>>, <<RemoteLog(AbsentId)>>}

HistoryAnswered ==
  \/ \E h \in DOMAIN historyCalls : \E logs \in HistoryBodies : GetTicHistoryOk(h, logs)
  \/ \E h \in DOMAIN historyCalls : GetTicHistoryFail(h)

NextHistory ==
  \/ \E r \in Ranges : GetTicHistoryCall(r[1], r[2])
  \/ HistoryAnswered

SpecRange == Init /\ [][NextHistory \/ Tick]_vars

\* The range reads next to the mutations of the log store.
NextMutation ==
  \/ LogTicCall
  \/ \E c \in DOMAIN logTicCalls : LogTicOk(c)
  \/ \E c \in DOMAIN logTicCalls : LogTicFail(c)
  \/ SyncTicLogsCall
  \/ \E c \in DOMAIN syncTicCalls : \E assign \in BOOLEAN : SyncTicLogsOk(c, assign)
  \/ \E c \in DOMAIN syncTicCalls : SyncTicLogsFail(c)
  \/ \E c \in DOMAIN syncTicCalls : \E saved \in SaveOutcomes : SyncTicLogsSaved(c, saved)
  \/ \E kind \in {"delete", "update"} : \E logId \in DOMAIN tic.ticLogs :
       EditTicLogCall(kind, logId)
  \/ \E c \in DOMAIN editTicCalls : EditTicLogOk(c)
  \/ \E c \in DOMAIN editTicCalls : EditTicLogFail(c)

SpecCache == InitFew /\ [][NextHistory \/ NextMutation \/ Tick]_vars

\* deleteTicLog and updateTicLog, of ids the mapping holds and of one it does not
NextEdit ==
  \/ LogTicCall
  \/ \E c \in DOMAIN logTicCalls : LogTicOk(c)
  \/ \E c \in DOMAIN logTicCalls : LogTicFail(c)
  \/ \E kind \in {"delete", "update"} : \E logId \in DOMAIN tic.ticLogs \cup {AbsentId} :
       EditTicLogCall(kind, logId)
  \/ \E c \in DOMAIN editTicCalls : EditTicLogOk(c)
  \/ \E c \in DOMAIN editTicCalls : EditTicLogFail(c)

SpecEdit == Init /\ [][NextEdit]_vars

\* The generation of suggestions, for two tic types; the server answers with
\* one new suggestion.
TicTypes == {"t1", "t2"}

SuggestionCounts == {1}

NextGeneration ==
  \/ \E t \in TicTypes : GeneratePersonalizedSuggestionsCall(t)
  \/ HistoryAnswered
  \/ \E g \in DOMAIN genCalls : \E n \in SuggestionCounts : GeneratePersonalizedSuggestionsOk(g, n)
  \/ \E g \in DOMAIN genCalls : GeneratePersonalizedSuggestionsFail(g)
  \/ \E g \in DOMAIN genCalls : \E saved \in SaveOutcomes :
       GeneratePersonalizedSuggestionsPersisted(g, saved)

SpecGeneration == InitFew /\ [][NextGeneration \/ Elapse]_vars

\* The same, each call issued after the previous one has returned.
Generating == {g \in DOMAIN genCalls : genCalls[g].pc \in {"history", "generate", "persist"}}

GeneratePersonalizedSuggestionsCallBounded(t) ==
  Generating = {} /\ GeneratePersonalizedSuggestionsCall(t)

NextCooldown ==
  \/ \E t \in TicTypes : GeneratePersonalizedSuggestionsCallBounded(t)
  \/ \E h \in DOMAIN historyCalls : GetTicHistoryOk(h, <<>>)
  \/ \E h \in DOMAIN historyCalls : GetTicHistoryFail(h)
  \/ \E g \in DOMAIN genCalls : \E n \in SuggestionCounts : GeneratePersonalizedSuggestionsOk(g, n)
  \/ \E g \in DOMAIN genCalls : GeneratePersonalizedSuggestionsFail(g)
  \/ \E g \in DOMAIN genCalls : \E saved \in SaveOutcomes :
       GeneratePersonalizedSuggestionsPersisted(g, saved)

SpecCooldown == Init /\ [][NextCooldown \/ Elapse]_vars

\* The application from its start: the startup loads are pending while the
\* screens already call the stores; it may be restarted.
InitBoot ==
  /\ InitStores
  /\ budget = FewCalls
  /\ boot = [tic |-> "loading", sug |-> "loading", restarts |-> 0]

NextBoot ==
  \/ \E loaded \in BOOLEAN : TicHydrate(loaded)
  \/ \E loaded \in BOOLEAN : SugHydrate(loaded)
  \/ Restart

NextBootTic ==
  \/ LogTicCall
  \/ \E c \in DOMAIN logTicCalls : LogTicOk(c)
  \/ \E c \in DOMAIN logTicCalls : LogTicFail(c)
  \/ SyncTicLogsCall
  \/ \E c \in DOMAIN syncTicCalls : \E assign \in BOOLEAN : SyncTicLogsOk(c, assign)
  \/ \E c \in DOMAIN syncTicCalls : SyncTicLogsFail(c)
  \/ \E c \in DOMAIN syncTicCalls : \E saved \in SaveOutcomes : SyncTicLogsSaved(c, saved)

NextBootSug ==
  \/ ProvideFeedbackCall
  \/ SyncUserFeedbackCall
  \/ SugAnswered
  \/ NextCooldown

SpecBoot == InitBoot /\ [][NextBoot \/ NextBootTic \/ NextBootSug \/ Elapse]_vars

\* Every operation that reads or writes an error field, from the start of the
\* application, in any interleaving of a few calls.
TypeBodies == {<<[id |-> "t1"], [id |-> "t2"]>>}

TicLoadAnswered ==
  \/ \E c \in DOMAIN loadCalls : \E types \in TypeBodies : FetchTicTypesOk(c, types)
  \/ \E c \in DOMAIN loadCalls : FetchTicTypesFail(c)

SugLoadAnswered ==
  \/ \E c \in DOMAIN loadCalls : \E n \in SuggestionCounts : FetchSuggestionsForTicTypeOk(c, n)
  \/ \E c \in DOMAIN loadCalls : FetchSuggestionsForTicTypeFail(c)
  \/ \E c \in DOMAIN loadCalls : \E saved \in SaveOutcomes :
       FetchSuggestionsForTicTypePersisted(c, saved)

\* the calls that await a collaborator
Awaiting(cs, pcs) == {i \in DOMAIN cs : cs[i].pc \in pcs}

\* no operation of either store is in flight
Idle ==
  /\ Awaiting(logTicCalls, {"fetch"}) = {}
  /\ Awaiting(syncTicCalls, {"fetch", "save"}) = {}
  /\ Awaiting(editTicCalls, {"fetch"}) = {}
  /\ Awaiting(historyCalls, {"fetch"}) = {}
  /\ Awaiting(loadCalls, {"fetch", "persist"}) = {}
  /\ Awaiting(feedbackCalls, {"fetch", "persist"}) = {}
  /\ Awaiting(syncFbCalls, {"replay", "resume", "persist"}) = {}
  /\ Awaiting(genCalls, {"history", "generate", "persist"}) = {}

\* the answers of the collaborators to the log store
TicAnswered ==
  \/ \E c \in DOMAIN logTicCalls : LogTicOk(c)
  \/ \E c \in DOMAIN logTicCalls : LogTicFail(c)
  \/ \E c \in DOMAIN syncTicCalls : SyncTicLogsOk(c, TRUE)
  \/ \E c \in DOMAIN syncTicCalls : SyncTicLogsFail(c)
  \/ \E c \in DOMAIN syncTicCalls : \E saved \in SaveOutcomes : SyncTicLogsSaved(c, saved)
  \/ \E c \in DOMAIN editTicCalls : EditTicLogOk(c)
  \/ \E c \in DOMAIN editTicCalls : EditTicLogFail(c)
  \/ TicLoadAnswered
  \/ \E h \in DOMAIN historyCalls : GetTicHistoryOk(h, <<>>)
  \/ \E h \in DOMAIN historyCalls : GetTicHistoryFail(h)

GenerationAnswered ==
  \/ \E g \in DOMAIN genCalls : \E n \in SuggestionCounts : GeneratePersonalizedSuggestionsOk(g, n)
  \/ \E g \in DOMAIN genCalls : GeneratePersonalizedSuggestionsFail(g)
  \/ \E g \in DOMAIN genCalls : \E saved \in SaveOutcomes :
       GeneratePersonalizedSuggestionsPersisted(g, saved)

\* the calls of the screens, each issued when the previous one has returned
TicCalled ==
  \/ LogTicCall
  \/ SyncTicLogsCall
  \/ \E kind \in {"delete", "update"} : \E logId \in DOMAIN tic.ticLogs :
       EditTicLogCall(kind, logId)
  \/ FetchTicTypesCall
  \/ GetTicHistoryCall(1, 2)

SugCalled ==
  \/ ProvideFeedbackCall
  \/ SyncUserFeedbackCall
  \/ Retry
  \/ FetchSuggestionsForTicTypeCall("t1")
  \/ GeneratePersonalizedSuggestionsCall("t1")

NextSticky ==
  \/ \E loaded \in BOOLEAN : TicHydrate(loaded)
  \/ \E loaded \in BOOLEAN : SugHydrate(loaded)
  \/ Idle /\ TicCalled
  \/ Idle /\ SugCalled
  \/ TicAnswered
  \/ SugAnswered
  \/ SugLoadAnswered
  \/ GenerationAnswered
  \/ TicClearError
  \/ TicResetStore
  \/ SugClearError

SpecSticky == InitBoot /\ [][NextSticky]_vars

\* The drains of the feedback store: provideFeedback called by the screens one
\* call at a time, syncUserFeedback and retry at any moment, the user signing
\* out and in; every call of a collaborator is answered and every resumed
\* function runs.
ProvideFeedbackCallBounded == Idle /\ ProvideFeedbackCall

NextDrain ==
  \/ ProvideFeedbackCallBounded
  \/ SyncUserFeedbackCall
  \/ Retry
  \/ SugAnswered
  \/ \E u \in {"u1", null} : SetUserId(u)

FairSpecDrain == Init /\ [][NextDrain]_vars /\ WF_vars(SugAnswered)

\* Every operation of the log store that sets the loading flag, next to the
\* mutations, in any interleaving.
NextLoading ==
  \/ NextHistory
  \/ NextMutation
  \/ FetchTicTypesCall
  \/ TicLoadAnswered

SpecLoading == InitFew /\ [][NextLoading]_vars

\* ============================================================= properties
\* the step in which logTic call c runs its catch block
LogTicFails(c) == logTicCalls[c].pc = "fetch" /\ logTicCalls'[c].pc = "failed"

\* the step in which provideFeedback call c runs its catch block
ProvideFeedbackFails(c) == feedbackCalls[c].pc = "fetch" /\ feedbackCalls'[c].pc = "failed"

\* C1: a create whose remote confirmation fails, no other operation having
\* acted on the store meanwhile, leaves the primary mapping and the
\* RecentProjection equal to their values before the call.
C1_FullRollback ==
  [][ /\ \A c \in DOMAIN logTicCalls :
           (LogTicFails(c) /\ logTicCalls'[c].alone)
             => /\ tic'.ticLogs = logTicCalls[c].pre.ticLogs
                /\ tic'.recentLogs = logTicCalls[c].pre.recentLogs
      /\ \A c \in DOMAIN feedbackCalls :
           (ProvideFeedbackFails(c) /\ feedbackCalls'[c].alone)
             => sug'.userFeedback = feedbackCalls[c].pre.userFeedback ]_vars

\* C2: a create whose remote confirmation fails returns, leaves no entry of
\* its record in the primary mapping, leaves the store error non-null, and has
\* added exactly one entry to the retry queue: the feedback store appends it in
\* the catch block; the log store appended it with the optimistic update and the
\* catch block leaves the queue alone, so that a call nothing interleaved with
\* ends with a queue one longer than before it.
C2_FailedCreate ==
  [][ /\ \A c \in DOMAIN logTicCalls :
           LogTicFails(c)
             => /\ logTicCalls[c].tempId \notin DOMAIN tic'.ticLogs
                /\ tic'.error # null
                /\ tic'.pendingLogs = tic.pendingLogs
                /\ logTicCalls'[c].alone
                     => Len(tic'.pendingLogs) = Len(logTicCalls[c].pre.pendingLogs) + 1
      /\ \A c \in DOMAIN feedbackCalls :
           ProvideFeedbackFails(c)
             => /\ feedbackCalls[c].feedbackId \notin DOMAIN sug'.userFeedback
                /\ sug'.error # null
                /\ Len(sug'.operationQueue) = Len(sug.operationQueue) + 1
                /\ feedbackCalls'[c].alone
                     => Len(sug'.operationQueue) = Len(feedbackCalls[c].pre.operationQueue) + 1
    ]_vars

\* C2 witness: from the empty stores one logTic and one provideFeedback have
\* failed and returned; each queue has length 1 and each error is set.
C2_Witness ==
  /\ Len(logTicCalls) = 1 /\ logTicCalls[1].pc = "failed"
  /\ DOMAIN tic.ticLogs = {} /\ Len(tic.pendingLogs) = 1 /\ tic.error # null
  /\ Len(feedbackCalls) = 1 /\ feedbackCalls[1].pc = "failed"
  /\ DOMAIN sug.userFeedback = {} /\ Len(sug.operationQueue) = 1 /\ sug.error # null

\* the ids under which the primary mapping holds the record logTic call c created
KeysOf(c) == {id \in DOMAIN tic.ticLogs : tic.ticLogs[id].data = c}

\* a deleteTicLog of the record of logTic call c has succeeded
Deleted(c) ==
  \E e \in DOMAIN editTicCalls :
    /\ editTicCalls[e].kind = "delete"
    /\ editTicCalls[e].pc = "ok"
    /\ editTicCalls[e].logId \in {logTicCalls[c].tempId, logTicCalls[c].savedId}

\* C3: until it is rolled back or deleted, the record a create made is in the
\* primary mapping under exactly one id: its client-local id until the
\* confirmation, its server-assigned id afterwards.
C3_OneIdPerRecord ==
  \A c \in DOMAIN logTicCalls :
    /\ logTicCalls[c].pc = "fetch" => (KeysOf(c) = {logTicCalls[c].tempId} \/ Deleted(c))
    /\ logTicCalls[c].pc = "confirmed" => (KeysOf(c) = {logTicCalls[c].savedId} \/ Deleted(c))

\* C4: concurrent creates get pairwise distinct client-local ids, and once all
\* of them are confirmed (nothing but creates having run) the primary mapping
\* holds one server-assigned record per create, no entry under a client-local
\* id, and the pending collection is empty.
C4_AllConfirmed ==
  /\ \A c1, c2 \in DOMAIN logTicCalls :
       c1 # c2 => logTicCalls[c1].tempId # logTicCalls[c2].tempId
  /\ \A c1, c2 \in DOMAIN feedbackCalls :
       c1 # c2 => feedbackCalls[c1].feedbackId # feedbackCalls[c2].feedbackId
  /\ (/\ syncTicCalls = <<>> /\ editTicCalls = <<>>
      /\ \A c \in DOMAIN logTicCalls : logTicCalls[c].pc = "confirmed")
       => /\ DOMAIN tic.ticLogs = {logTicCalls[c].savedId : c \in DOMAIN logTicCalls}
          /\ \A id \in DOMAIN tic.ticLogs : ~IsTempId(id)
          /\ Cardinality(DOMAIN tic.ticLogs) = Len(logTicCalls)
          /\ tic.pendingLogs = <<>>
  /\ (/\ syncFbCalls = <<>>
      /\ \A c \in DOMAIN feedbackCalls : feedbackCalls[c].pc \in {"persist", "confirmed"})
       => /\ \A id \in DOMAIN sug.userFeedback : ~IsTempId(id)
          /\ Cardinality(DOMAIN sug.userFeedback) = Len(feedbackCalls)
          /\ DOMAIN sug.pendingFeedback = {}

\* the sync calls of each store that have started a drain and not yet returned
TicDrains == {c \in DOMAIN syncTicCalls : syncTicCalls[c].pc \in {"fetch", "save"}}
SugDrains == {d \in DOMAIN syncFbCalls : syncFbCalls[d].pc \in {"replay", "resume", "persist"}}

\* C5: in each store at most one drain is in flight at any time.
C5_OneDrainPerStore == Cardinality(TicDrains) <= 1 /\ Cardinality(SugDrains) <= 1

\* the drains of the feedback store that are inside their replay loop
SugDraining == {d \in DOMAIN syncFbCalls : syncFbCalls[d].pc \in {"replay", "resume"}}

\* C6: the draining flag is set only while a drain is inside its replay loop:
\* every way out of the loop (the final update, the catch block) has cleared
\* it; and when every collaborator call is answered, a set flag is eventually
\* cleared.
C6_FlagReleased ==
  /\ [](sug.isSyncing => SugDraining # {})
  /\ (sug.isSyncing ~> ~sug.isSyncing)

\* C6 witness: a drain left its loop by the exception of a missing identity,
\* another by its final update after a failed replay; the flag is clear.
C6_Witness ==
  /\ ~sug.isSyncing
  /\ \E d \in DOMAIN syncFbCalls :
       \/ syncFbCalls[d].pc = "threw"
       \/ /\ syncFbCalls[d].pc \in {"persist", "synced"}
          /\ \E c \in DOMAIN feedbackCalls :
               feedbackCalls[c].parent = d /\ feedbackCalls[c].pc = "failed"

\* the step in which drain d of the feedback store leaves its replay loop, by
\* the final update or by the catch block
DrainExits(d) ==
  /\ syncFbCalls'[d].pc \in {"persist", "threw"}
  /\ d \in DOMAIN syncFbCalls => syncFbCalls[d].pc = "resume"

\* the replay of the i-th operation of drain d: failed, confirmed
ReplayFailed(d, i) ==
  \E c \in DOMAIN feedbackCalls :
    /\ feedbackCalls[c].parent = d /\ feedbackCalls[c].op = i
    /\ feedbackCalls[c].pc = "failed"
ReplayConfirmed(d, i) ==
  \E c \in DOMAIN feedbackCalls :
    /\ feedbackCalls[c].parent = d /\ feedbackCalls[c].op = i
    /\ feedbackCalls[c].pc = "confirmed"

\* C7: a drain in which a replay failed ends with the store error set and
\* with lastSync as it was when the drain started.
C7_LastSyncOnlyOnSuccess ==
  [][ \A d \in DOMAIN syncFbCalls' :
        (DrainExits(d) /\ \E i \in DOMAIN syncFbCalls'[d].operations : ReplayFailed(d, i))
          => /\ sug'.error # null
             /\ sug'.lastSync = syncFbCalls'[d].lastSync ]_vars

\* C8: a drain during which every remote call succeeded (every operation of
\* its snapshot replayed and confirmed, nothing enqueued meanwhile) ends with
\* an empty queue and with lastSync at or after the time the drain started.
C8_DrainEmptiesQueue ==
  [][ /\ \A d \in DOMAIN syncFbCalls' :
           (/\ DrainExits(d)
            /\ \A i \in DOMAIN syncFbCalls'[d].operations : ReplayConfirmed(d, i)
            /\ sug.operationQueue = syncFbCalls'[d].operations)
             => /\ sug'.operationQueue = <<>>
                /\ sug'.lastSync >= syncFbCalls'[d].start
      /\ \A c \in DOMAIN syncTicCalls' :
           (/\ syncTicCalls'[c].pc \in {"save", "empty"}
            /\ c \in DOMAIN syncTicCalls => syncTicCalls[c].pc = "fetch")
             => /\ tic'.pendingLogs = <<>>
                /\ tic'.lastSync >= syncTicCalls'[c].start ]_vars

\* C9: when a drain ends, an operation of its snapshot is out of the queue if
\* and only if its replay was confirmed; one not confirmed is still there as
\* the same entry.
C9_RemovedIffConfirmed ==
  [][ /\ \A d \in DOMAIN syncFbCalls' :
           DrainExits(d)
             => \A i \in DOMAIN syncFbCalls'[d].operations :
                  Includes(sug'.operationQueue, syncFbCalls'[d].operations[i])
                    <=> ~ReplayConfirmed(d, i)
      /\ \A c \in DOMAIN syncTicCalls :
           (syncTicCalls[c].pc = "fetch" /\ syncTicCalls'[c].pc = "save")
             => \A i \in DOMAIN syncTicCalls[c].sent :
                  ~Includes(tic'.pendingLogs, syncTicCalls[c].sent[i]) ]_vars

\* C10: an entry that is in the queue when a drain ends and was not in the
\* snapshot the drain took at its start is still in the queue afterwards.
C10_LateEntriesKept ==
  [][ /\ \A c \in DOMAIN syncTicCalls :
           (syncTicCalls[c].pc = "fetch" /\ syncTicCalls'[c].pc # "fetch")
             => \A i \in DOMAIN tic.pendingLogs :
                  ~Includes(syncTicCalls[c].sent, tic.pendingLogs[i])
                    => Includes(tic'.pendingLogs, tic.pendingLogs[i])
      /\ \A d \in DOMAIN syncFbCalls' :
           DrainExits(d)
             => \A i \in DOMAIN sug.operationQueue :
                  ~Includes(syncFbCalls'[d].operations, sug.operationQueue[i])
                    => Includes(sug'.operationQueue, sug.operationQueue[i]) ]_vars

\* no call of the store is in flight
TicQuiescent ==
  /\ \A c \in DOMAIN logTicCalls : logTicCalls[c].pc \in {"confirmed", "failed"}
  /\ \A c \in DOMAIN syncTicCalls : syncTicCalls[c].pc \in {"empty", "failed", "synced", "unsaved"}
  /\ \A c \in DOMAIN editTicCalls : editTicCalls[c].pc \in {"ok", "failed"}
  /\ \A h \in DOMAIN historyCalls : historyCalls[h].pc \in {"hit", "cached", "failed"}
SugQuiescent ==
  /\ \A c \in DOMAIN feedbackCalls : feedbackCalls[c].pc \in {"confirmed", "failed"}
  /\ \A d \in DOMAIN syncFbCalls : syncFbCalls[d].pc \in {"busy", "threw", "synced"}
  /\ \A g \in DOMAIN genCalls : genCalls[g].pc \in {"cooldown", "failed", "generated"}

\* the retry queue in the persisted snapshot; no snapshot holds no queue
TicPersistedQueue == IF ticDisk = NoFile THEN <<>> ELSE ticDisk[1].pendingLogs
SugPersistedQueue == IF sugDisk = NoFile THEN <<>> ELSE sugDisk[1].operationQueue

\* C11: when a create whose confirmation failed returns, the persisted
\* snapshot holds the operation enqueued for it; and whenever no call is in
\* flight the queue of the persisted snapshot is the queue in memory.
C11_QueueDurable ==
  [][ /\ \A c \in DOMAIN feedbackCalls :
           ProvideFeedbackFails(c)
             => \E i \in DOMAIN SugPersistedQueue' :
                  SugPersistedQueue'[i].data = feedbackCalls[c].newFeedback
      /\ \A c \in DOMAIN logTicCalls :
           LogTicFails(c)
             => \E i \in DOMAIN TicPersistedQueue' :
                  TicPersistedQueue'[i].id = logTicCalls[c].tempId
      /\ SugQuiescent' => SugPersistedQueue' = Map(sug'.operationQueue, OpToJson)
      /\ TicQuiescent' => TicPersistedQueue' = Map(tic'.pendingLogs, LogToJson) ]_vars

\* C12: the retry queue never holds two operations for the same logical
\* mutation (the feedback, or the log, one call of a screen submitted).
C12_OneOperationPerMutation ==
  /\ \A i, j \in DOMAIN sug.operationQueue :
       i # j => sug.operationQueue[i].data.data # sug.operationQueue[j].data.data
  /\ \A i, j \in DOMAIN tic.pendingLogs :
       i # j => tic.pendingLogs[i].data # tic.pendingLogs[j].data

\* getTicHistory call h has issued its GET
RemoteRead(h) == historyCalls[h].pc # "hit"

\* C13 as stated: of two readRange calls for the same bounds made less than 30
\* minutes apart at most one issues a remote read, and a call made 30 minutes
\* or more after the entry it finds was cached issues one.
C13_OneReadWithinTTL ==
  /\ \A h1, h2 \in DOMAIN historyCalls :
       (/\ h1 < h2
        /\ historyCalls[h1].cacheKey = historyCalls[h2].cacheKey
        /\ historyCalls[h2].start - historyCalls[h1].start < CACHE_DURATION)
         => ~(RemoteRead(h1) /\ RemoteRead(h2))
  /\ \A h \in DOMAIN historyCalls :
       (/\ historyCalls[h].cached # <<>>
        /\ historyCalls[h].start - historyCalls[h].cached[1].timestamp >= CACHE_DURATION)
         => RemoteRead(h)

\* C13 as amended: a readRange call that finds an entry for its bounds cached
\* less than 30 minutes ago (by an earlier call whose remote read succeeded)
\* returns the payload of the entry and issues no remote read; a call that
\* finds no entry, or one cached 30 minutes ago or more, issues a remote read.
C13_OneReadPerFreshEntry ==
  \A h \in DOMAIN historyCalls :
    LET call == historyCalls[h] IN
    /\ (call.cached # <<>> /\ call.start - call.cached[1].timestamp < CACHE_DURATION)
         => (~RemoteRead(h) /\ call.result = <<call.cached[1].logs>>)
    /\ (call.cached # <<>> /\ call.start - call.cached[1].timestamp >= CACHE_DURATION)
         => RemoteRead(h)
    /\ call.cached = <<>> => RemoteRead(h)
    /\ call.cached # <<>>
         => \E h0 \in DOMAIN historyCalls :
              /\ h0 # h
              /\ historyCalls[h0].pc = "cached"
              /\ historyCalls[h0].cacheKey = call.cacheKey
              /\ historyCalls[h0].result = <<call.cached[1].logs>>

\* C13 witness: three calls for the same bounds, each made after the one
\* before had returned: a remote read that is cached, a call within 30
\* minutes that is answered from the cache, and a call 30 minutes or more
\* after the caching that reads remotely again.
C13_Witness ==
  /\ Len(historyCalls) = 3
  /\ \A h \in 1..3 : historyCalls[h].cacheKey = historyCalls[1].cacheKey
  /\ historyCalls[1].pc = "cached"
  /\ historyCalls[2].pc = "hit" /\ historyCalls[2].returned = 1
  /\ historyCalls[3].pc = "fetch" /\ historyCalls[3].returned = 2
  /\ historyCalls[3].cached # <<>>
  /\ Cardinality({h \in 1..3 : RemoteRead(h)}) = 2

\* the step in which getTicHistory call h runs its catch block
GetTicHistoryFails(h) == historyCalls[h].pc = "fetch" /\ historyCalls'[h].pc = "failed"

\* C14: a readRange whose remote read fails returns the empty sequence, sets
\* the store error and leaves the cache as it is; the entry of its bounds, if
\* no other call has replaced it since the call was made, is still absent or
\* expired; and a call that finds no fresh entry issues a remote read.
C14_FailedReadNotCached ==
  [][ /\ \A h \in DOMAIN historyCalls :
           GetTicHistoryFails(h)
             => LET call == historyCalls[h] IN
                /\ historyCalls'[h].result = << <<>> >>
                /\ tic'.error # null
                /\ tic'.cachedHistoryRanges = tic.cachedHistoryRanges
                /\ (IF call.cacheKey \in DOMAIN tic'.cachedHistoryRanges
                      THEN <<tic'.cachedHistoryRanges[call.cacheKey]>> ELSE <<>>) = call.cached
                     => ~Cached(tic', call.cacheKey)
      /\ (Len(historyCalls') = Len(historyCalls) + 1
          /\ ~Cached(tic, historyCalls'[Len(historyCalls')].cacheKey))
           => historyCalls'[Len(historyCalls')].pc = "fetch" ]_vars

\* C14 witness: a remote read was cached; 30 minutes or more later a call for
\* the same bounds failed and the expired entry is still what it was; a call
\* made after that failure is reading remotely again.
C14_Witness ==
  \E h1, h2 \in DOMAIN historyCalls :
    /\ Len(historyCalls) = 3 /\ h1 = 2 /\ h2 = 3
    /\ historyCalls[h1].pc = "failed"
    /\ historyCalls[h1].cached # <<>>
    /\ historyCalls[h1].cacheKey \in DOMAIN tic.cachedHistoryRanges
    /\ tic.cachedHistoryRanges[historyCalls[h1].cacheKey] = historyCalls[h1].cached[1]
    /\ tic.error = "Failed to fetch tic history"
    /\ historyCalls[h2].cacheKey = historyCalls[h1].cacheKey
    /\ historyCalls[h2].returned = 2
    /\ historyCalls[h2].pc = "fetch"

RemoteGeneration(g) == genCalls[g].pc \in {"generate", "persist", "generated", "failed"}

\* C16: two generateDerived calls for the same subject made less than one
\* hour apart, whether or not the first has completed when the second is
\* made, do not both call the remote generation collaborator.
C16_OneGenerationPerHour ==
  \A g1, g2 \in DOMAIN genCalls :
    (/\ g1 < g2
     /\ genCalls[g1].ticTypeId = genCalls[g2].ticTypeId
     /\ genCalls[g2].start - genCalls[g1].start < GenerationCooldown)
      => ~(RemoteGeneration(g1) /\ RemoteGeneration(g2))

\* C17: a generateDerived call for a subject generated for less than one hour
\* ago is dropped: the step changes no field of either store, writes no
\* snapshot and starts no call of a collaborator; a call for a subject that
\* was not generated for in the last hour is not dropped, whatever the last
\* generation of the other subjects.
C17_CooldownIsSilent ==
  [][ Len(genCalls') = Len(genCalls) + 1
        => LET call == genCalls'[Len(genCalls')]
               last == sug.lastAIGeneration
           IN IF call.ticTypeId \in DOMAIN last
                   /\ now - last[call.ticTypeId] < GenerationCooldown
                THEN /\ call.pc = "cooldown"
                     /\ sug' = sug /\ tic' = tic
                     /\ sugDisk' = sugDisk /\ ticDisk' = ticDisk
                     /\ historyCalls' = historyCalls
                     /\ \A g \in DOMAIN genCalls : genCalls'[g] = genCalls[g]
                ELSE call.pc # "cooldown" ]_vars

\* C17 witness: a generation for a subject has completed; a second call for
\* the same subject made less than one hour later was dropped; a third call,
\* for another subject and still within that hour, is generating.
C17_Witness ==
  /\ Len(genCalls) = 3
  /\ genCalls[1].pc = "generated"
  /\ genCalls[2].pc = "cooldown" /\ genCalls[2].ticTypeId = genCalls[1].ticTypeId
  /\ genCalls[3].pc = "generate" /\ genCalls[3].ticTypeId # genCalls[1].ticTypeId
  /\ genCalls[3].start - sug.lastAIGeneration[genCalls[1].ticTypeId] < GenerationCooldown

\* C18: an update of an id the primary mapping does not hold fails before any
\* remote call and changes nothing; and the ok response of an update never
\* adds an entry under an id the mapping did not hold.
C18_UpdateNotFound ==
  [][ /\ (/\ Len(editTicCalls') = Len(editTicCalls) + 1
          /\ editTicCalls'[Len(editTicCalls')].kind = "update"
          /\ editTicCalls'[Len(editTicCalls')].logId \notin DOMAIN tic.ticLogs)
           => (editTicCalls'[Len(editTicCalls')].pc # "fetch" /\ tic' = tic)
      /\ \A c \in DOMAIN editTicCalls :
           (/\ editTicCalls[c].kind = "update"
            /\ editTicCalls[c].pc = "fetch" /\ editTicCalls'[c].pc = "ok")
             => DOMAIN tic'.ticLogs \subseteq DOMAIN tic.ticLogs ]_vars

\* the steps in which deleteTicLog / updateTicLog call c is made, and fails
EditTicLogCalled(c) == c = Len(editTicCalls') /\ Len(editTicCalls') = Len(editTicCalls) + 1
EditTicLogFails(c) ==
  c \in DOMAIN editTicCalls /\ editTicCalls[c].pc = "fetch" /\ editTicCalls'[c].pc = "failed"

\* C19: a delete or an update that the remote collaborator fails consists of
\* two steps, the call and the catch block, and neither changes the primary
\* mapping, the RecentProjection or the retry queue; the catch block leaves
\* the store error set. In particular delete removes nothing before the
\* remote call has succeeded.
C19_FailedEditKeepsState ==
  [][ \A c \in DOMAIN editTicCalls' :
        (EditTicLogCalled(c) \/ EditTicLogFails(c))
          => /\ tic'.ticLogs = tic.ticLogs
             /\ tic'.recentLogs = tic.recentLogs
             /\ tic'.pendingLogs = tic.pendingLogs
             /\ EditTicLogFails(c) => tic'.error # null ]_vars

\* C19 witness: a delete of a confirmed record has failed; the record is
\* still in the mapping and in the RecentProjection, and the error is set.
C19_Witness ==
  \E c \in DOMAIN editTicCalls :
    /\ editTicCalls[c].kind = "delete" /\ editTicCalls[c].pc = "failed"
    /\ ~IsTempId(editTicCalls[c].logId)
    /\ editTicCalls[c].logId \in DOMAIN tic.ticLogs
    /\ \E i \in DOMAIN tic.recentLogs : tic.recentLogs[i].id = editTicCalls[c].logId
    /\ tic.error = "Failed to delete tic log"

\* C20: a create called while no owning identity is available (a call that
\* starts no call record) leaves every field of both stores unchanged.
C20_UnauthenticatedNoChange ==
  [][ (/\ userId = null
       /\ budget' = budget - 1
       /\ Len(logTicCalls') = Len(logTicCalls) /\ Len(feedbackCalls') = Len(feedbackCalls)
       /\ Len(syncTicCalls') = Len(syncTicCalls) /\ Len(syncFbCalls') = Len(syncFbCalls)
       /\ Len(editTicCalls') = Len(editTicCalls)
       /\ Len(historyCalls') = Len(historyCalls) /\ Len(genCalls') = Len(genCalls))
        => (tic' = tic /\ sug' = sug) ]_vars

\* the flags a snapshot may not hold set, and the field it may not hold at all
SnapshotClean(snapshot) ==
  /\ "error" \notin DOMAIN snapshot
  /\ "isLoading" \in DOMAIN snapshot => ~snapshot.isLoading
  /\ "isSyncing" \in DOMAIN snapshot => ~snapshot.isSyncing

\* the client-local ids whose confirmation is outstanding
OutstandingLogs == {logTicCalls[k].tempId : k \in InFlight(logTicCalls)}
OutstandingFeedback == {feedbackCalls[k].feedbackId : k \in InFlight(feedbackCalls)}

\* C21: the snapshot a store operation hands to saveString holds no loading
\* or draining flag set to true, no error field, and no record under a
\* client-local id whose confirmation is outstanding at that moment, whatever
\* else is in flight.
C21_SnapshotHoldsDurableOnly ==
  [][ /\ \A c \in DOMAIN syncTicCalls :
           (syncTicCalls[c].pc = "fetch" /\ syncTicCalls'[c].pc = "save")
             => LET snapshot == syncTicCalls'[c].snap[1]
                IN /\ SnapshotClean(snapshot)
                   /\ \A id \in OutstandingLogs' :
                        /\ id \notin DOMAIN snapshot.ticLogs
                        /\ \A i \in DOMAIN snapshot.recentLogs : snapshot.recentLogs[i].id # id
      /\ \A c \in DOMAIN feedbackCalls :
           (feedbackCalls[c].pc = "fetch" /\ feedbackCalls'[c].pc = "persist")
             => LET snapshot == feedbackCalls'[c].snap[1]
                IN /\ SnapshotClean(snapshot)
                   /\ \A id \in OutstandingFeedback' : id \notin DOMAIN snapshot.userFeedback
      /\ \A d \in DOMAIN syncFbCalls :
           (syncFbCalls[d].pc # "persist" /\ syncFbCalls'[d].pc = "persist")
             => LET snapshot == syncFbCalls'[d].snap[1]
                IN /\ SnapshotClean(snapshot)
                   /\ \A id \in OutstandingFeedback' : id \notin DOMAIN snapshot.userFeedback
    ]_vars

\* C22: a failure of saveString inside a store operation is swallowed. The
\* step in which an operation is resumed after its save, resolved or rejected,
\* leaves the store as the resolved save leaves it: the error and every data
\* field as they were (the log store clears its loading flag), and the call
\* returns normally.
C22_SaveFailureSwallowed ==
  [][ /\ \A c \in DOMAIN syncTicCalls :
           (syncTicCalls[c].pc = "save" /\ syncTicCalls'[c].pc # "save")
             => tic' = [tic EXCEPT !.isLoading = FALSE]
      /\ \A c \in DOMAIN feedbackCalls :
           (feedbackCalls[c].pc = "persist" /\ feedbackCalls'[c].pc # "persist")
             => sug' = sug /\ feedbackCalls'[c].pc = "confirmed"
      /\ \A d \in DOMAIN syncFbCalls :
           (syncFbCalls[d].pc = "persist" /\ syncFbCalls'[d].pc # "persist")
             => sug' = sug /\ syncFbCalls'[d].pc = "synced"
    ]_vars

\* the step in which the startup load of a store applies a snapshot it read
TicReloads == boot.tic = "loading" /\ boot'.tic = "hydrated" /\ tic' # TicInitialState
SugReloads == boot.sug = "loading" /\ boot'.sug = "hydrated" /\ sug' # SugInitialState

\* a Date, and a Date or null
IsDate(x) == x > 0
IsNullableDate(x) == x >= 0

\* C23: reloading a persisted snapshot is a round trip on the persisted
\* fields: the reloaded store holds what the snapshot holds, every date-typed
\* field (lastSync, each lastGeneratedAt, the timestamp of each queued entry)
\* is again a Date, and the cooldown check works on the reloaded dates as it
\* did before: no call of generatePersonalizedSuggestions throws.
C23_ReloadRoundTrip ==
  [][ /\ SugReloads
           => /\ SugToJson(sug') = sugDisk[1]
              /\ IsNullableDate(sug'.lastSync)
              /\ \A t \in DOMAIN sug'.lastAIGeneration : IsDate(sug'.lastAIGeneration[t])
              /\ \A i \in DOMAIN sug'.operationQueue : IsDate(sug'.operationQueue[i].timestamp)
      /\ TicReloads
           => /\ TicToJson(tic') = ticDisk[1]
              /\ IsNullableDate(tic'.lastSync)
              /\ \A i \in DOMAIN tic'.pendingLogs : IsDate(tic'.pendingLogs[i].timestamp)
      /\ \A g \in DOMAIN genCalls' : genCalls'[g].pc # "threw"
    ]_vars

\* the steps in which an error field that was set changes
TicErrorChanges == tic.error # null /\ tic'.error # tic.error
SugErrorChanges == sug.error # null /\ sug'.error # sug.error

ConfirmedLog(c) == [logTicCalls[c].newLog EXCEPT !.id = logTicCalls[c].savedId]

\* C25 as stated: with every create confirmed, recentLogs never holds more
\* than 10 entries and, no confirmation outstanding, it holds the (up to 10)
\* records confirmed last (the server numbers its ids in the order of the
\* confirmations).
C25_RecentHoldsLastConfirmed ==
  /\ Len(tic.recentLogs) <= RecentMax
  /\ InFlight(logTicCalls) = {}
       => {tic.recentLogs[i].id : i \in DOMAIN tic.recentLogs}
            = {ServerId(k) : k \in (srvIds - Min(srvIds, RecentMax) + 1)..srvIds}

\* C25 amended: with every create confirmed, recentLogs never holds more than
\* 10 entries and, no confirmation outstanding, it holds the (up to 10) records
\* created last, each as the server confirmed it and as the primary mapping
\* holds it, the one created last first.
C25_RecentHoldsLastCreated ==
  /\ Len(tic.recentLogs) <= RecentMax
  /\ InFlight(logTicCalls) = {}
       => LET n == Len(logTicCalls) IN
          /\ Len(tic.recentLogs) = Min(n, RecentMax)
          /\ \A i \in DOMAIN tic.recentLogs :
               /\ tic.recentLogs[i] = ConfirmedLog(n - i + 1)
               /\ ~IsTempId(tic.recentLogs[i].id)
               /\ tic.recentLogs[i].id \in DOMAIN tic.ticLogs
               /\ tic.ticLogs[tic.recentLogs[i].id] = tic.recentLogs[i]

\* C25 witness: eleven creates, all confirmed, the first one after the second:
\* the list is full and the first record has been cut off.
C25_Witness ==
  /\ Len(logTicCalls) = RecentMax + 1
  /\ InFlight(logTicCalls) = {}
  /\ logTicCalls[1].savedId = ServerId(2)
  /\ Len(tic.recentLogs) = RecentMax

\* C26: the step in which a create attempt reaches its terminal state, the
\* answer ok (Confirmed) or not (Failed), leaves no entry under the attempt's
\* client-local id in the primary mapping, in recentLogs or in
\* pendingFeedback.
C26_NoOptimisticArtifact ==
  [][ /\ \A c \in DOMAIN logTicCalls :
           (logTicCalls[c].pc = "fetch" /\ logTicCalls'[c].pc \in {"confirmed", "failed"})
             => /\ logTicCalls[c].tempId \notin DOMAIN tic'.ticLogs
                /\ \A i \in DOMAIN tic'.recentLogs : tic'.recentLogs[i].id # logTicCalls[c].tempId
      /\ \A c \in DOMAIN feedbackCalls :
           (feedbackCalls[c].pc = "fetch" /\ feedbackCalls'[c].pc \in {"persist", "failed"})
             => /\ feedbackCalls[c].feedbackId \notin DOMAIN sug'.userFeedback
                /\ feedbackCalls[c].feedbackId \notin DOMAIN sug'.pendingFeedback
    ]_vars

\* C27: in every state of the log store, under any interleaving of logTic,
\* updateTicLog, deleteTicLog and syncTicLogs, every entry of recentLogs is the
\* record the primary mapping holds under the entry's id, and no id occurs
\* twice in recentLogs.
C27_RecentIsProjection ==
  /\ \A i \in DOMAIN tic.recentLogs :
       /\ tic.recentLogs[i].id \in DOMAIN tic.ticLogs
       /\ tic.ticLogs[tic.recentLogs[i].id] = tic.recentLogs[i]
  /\ \A i, j \in DOMAIN tic.recentLogs :
       tic.recentLogs[i].id = tic.recentLogs[j].id => i = j

\* the calls of provideFeedback made by the replay loop of drain d
Replays(d) == {c \in DOMAIN feedbackCalls : feedbackCalls[c].parent = d}

\* the times drain d has invoked provideFeedback: the calls that went on to
\* their POST, and the one that threw
Invoked(d) == Cardinality(Replays(d)) + IF syncFbCalls[d].pc = "threw" THEN 1 ELSE 0

Drains == {d \in DOMAIN syncFbCalls : syncFbCalls[d].pc # "busy"}

\* C28 as stated, its finite part: a drain that has left its replay loop has
\* invoked provideFeedback once for each of the n operations of its snapshot.
C28_ExactlyNReplays ==
  \A d \in Drains :
    syncFbCalls[d].pc \in {"persist", "synced", "threw"}
      => Invoked(d) = Len(syncFbCalls[d].operations)

\* the replays of drain d so far are those of the first operations of its
\* snapshot, one each, made in enqueue order, each after the one before it had
\* returned; a drain that reached its final update has replayed all n, a drain
\* that caught a throw stopped at the operation that threw
DrainInOrder(d) ==
  LET operations == syncFbCalls[d].operations IN
  /\ {feedbackCalls[c].op : c \in Replays(d)} = 1..Cardinality(Replays(d))
  /\ Cardinality(Replays(d)) <= Len(operations)
  /\ \A c \in Replays(d) :
       feedbackCalls[c].newFeedback.data = operations[feedbackCalls[c].op].data.data
  /\ \A c1, c2 \in Replays(d) :
       c1 < c2 => /\ feedbackCalls[c1].op < feedbackCalls[c2].op
                  /\ feedbackCalls[c1].pc \in {"confirmed", "failed"}
  /\ syncFbCalls[d].pc \in {"persist", "synced"} => Cardinality(Replays(d)) = Len(operations)
  /\ syncFbCalls[d].pc = "threw"
       => /\ Cardinality(Replays(d)) = syncFbCalls[d].i - 1
          /\ Invoked(d) <= Len(operations)

\* call d of syncUserFeedback has returned
SyncUserFeedbackReturned(d) ==
  d \in DOMAIN syncFbCalls /\ syncFbCalls[d].pc \in {"busy", "synced", "threw"}

\* C28 amended: a drain replays the operations of its starting snapshot in
\* enqueue order, one at a time, each once, and all n of them unless a replay
\* throws (no owning identity), which ends the loop at that operation; and
\* every drain terminates, also when every replay fails and enqueues.
C28_DrainReplaysSnapshot ==
  /\ [](\A d \in Drains : DrainInOrder(d))
  /\ \A d \in 1..MaxCalls :
       (d \in DOMAIN syncFbCalls) ~> SyncUserFeedbackReturned(d)

\* C28 witness: a drain started with two queued operations has terminated,
\* both replays having failed and enqueued again.
C28_Witness ==
  \E d \in Drains :
    /\ syncFbCalls[d].pc = "synced"
    /\ Len(syncFbCalls[d].operations) = 2
    /\ Cardinality(Replays(d)) = 2
    /\ \A c \in Replays(d) : feedbackCalls[c].pc = "failed"
    /\ Len(sug.operationQueue) = 4

\* an operation of the log store that sets the loading flag has issued its
\* remote call and has not returned
TicLoadingInFlight ==
  \/ Awaiting(syncTicCalls, {"fetch", "save"}) # {}
  \/ Awaiting(editTicCalls, {"fetch"}) # {}
  \/ Awaiting(historyCalls, {"fetch"}) # {}
  \/ Awaiting(loadCalls, {"fetch"}) # {}

\* C29: in the log store isLoading is true exactly while a call of
\* syncTicLogs, fetchTicTypes, getTicHistory, deleteTicLog or updateTicLog is
\* in flight, however many of them overlap.
C29_LoadingWhileInFlight == tic.isLoading <=> TicLoadingInFlight

\* the step in which the startup load of a store completes
TicHydrates == boot.tic = "loading" /\ boot'.tic = "hydrated"
SugHydrates == boot.sug = "loading" /\ boot'.sug = "hydrated"

\* C30: what the operations invoked since the store was constructed have put
\* into the store is still there when the startup load has applied its
\* snapshot: the records, the queue entries, the cache entries and the error.
C30_HydrationKeepsChanges ==
  [][ /\ TicHydrates
           => /\ \A id \in DOMAIN tic.ticLogs :
                   id \in DOMAIN tic'.ticLogs /\ tic'.ticLogs[id] = tic.ticLogs[id]
              /\ \A i \in DOMAIN tic.pendingLogs : Includes(tic'.pendingLogs, tic.pendingLogs[i])
              /\ \A key \in DOMAIN tic.cachedHistoryRanges :
                   key \in DOMAIN tic'.cachedHistoryRanges
              /\ tic.error # null => tic'.error = tic.error
      /\ SugHydrates
           => /\ \A id \in DOMAIN sug.userFeedback : id \in DOMAIN sug'.userFeedback
              /\ \A i \in DOMAIN sug.operationQueue :
                   Includes(sug'.operationQueue, sug.operationQueue[i])
              /\ sug.error # null => sug'.error = sug.error
    ]_vars
====
